---- MODULE Spec2Model ----
(***************************************************************************)
(* A model of the storage servers and of the HTTP gateway of               *)
(* fireproof-test.                                                         *)
(*                                                                         *)
(*   src/src/server/index.ts             the Hono server: /fp?car, /fp?meta *)
(*   src/src/connect/gateway.ts          HttpSerdeGateway, its HTTP client  *)
(*   src/src/server/fireproof-backend.ts SimpleMsgDispatcher (in memory)    *)
(*                                                                         *)
(* A JavaScript Map is a sequence of [key, val] records in insertion order *)
(* with unique keys.  A store key `${meta}/${cid}` is the sequence of its   *)
(* '/'-separated segments, so that startsWith(`${meta}/`) and                *)
(* split('/')[1] are computed as the code computes them.                    *)
(***************************************************************************)
EXTENDS Integers, Sequences, FiniteSets, TLC

VARIABLES
    metaStore,    \* index.ts:18  Map<string, {data, parents}>
    carFiles,     \* index.ts:17  Map<string, Uint8Array>
    resp,         \* the HTTP response of the last request served by index.ts
    gw,           \* the Result the last HttpSerdeGateway call returned
    dMetaStore,   \* fireproof-backend.ts:25  the dispatcher's metaStore
    dCarFiles,    \* fireproof-backend.ts:24  the dispatcher's carFiles
    dConns,       \* fireproof-backend.ts:31  SimpleWSRoom._conns
    dresp,        \* the Response the last dispatch() returned
    hist,         \* history: per pointer, the entries PUT since its last DELETE
    parentsSeen,  \* history: per pointer, every cid an entry PUT to it listed as parent
    carHist,      \* history: per content key, the bytes PUT since its last DELETE
    disk,         \* part_002:25-130  the files PersistentStorage keeps in ./data
    acked,        \* history: the writes the persistent backend answered with success
    sub,          \* history: the callbacks handed to subscribe and what became of them
    ids,          \* the number of ids sthis.nextId has given to connections
    open,         \* history: the sockets whose onOpen ran and whose onClose did not
    flight,       \* index.ts: per client, the request whose handler has not returned
    lin,          \* history: the requests to index.ts in the order their handlers returned
    excluded,     \* history: per pointer, the cids a GET left out as parents
    frames        \* the socket of the last message and the frames sent for it

vars == <<metaStore, carFiles, resp, gw, dMetaStore, dCarFiles, dConns, dresp,
          hist, parentsSeen, carHist, disk, acked, sub, ids, open,
          flight, lin, excluded, frames>>

(***************************************************************************)
(* Bounds of the model.                                                    *)
(***************************************************************************)
\* HTTP meta writes (entries) accepted over all pointers between DELETEs
MaxWrites == 3
\* entries in one PUT body (1: a single object, more: an array)
MaxBatch == 2
\* content writes per key between DELETEs
MaxCarPuts == 2

(***************************************************************************)
(* Sequences and JavaScript Maps.                                          *)
(***************************************************************************)
Range(s) == {s[i] : i \in 1..Len(s)}

RECURSIVE SumLen(_, _)
SumLen(f, S) ==
    IF S = {} THEN 0
    ELSE LET x == CHOOSE y \in S : TRUE IN Len(f[x]) + SumLen(f, S \ {x})

MapHas(m, k) == \E i \in 1..Len(m) : m[i].key = k

MapGet(m, k) == m[CHOOSE i \in 1..Len(m) : m[i].key = k].val

\* Map.prototype.set: an existing key keeps its place, a new key goes last
MapSet(m, k, v) ==
    IF MapHas(m, k)
    THEN [i \in 1..Len(m) |-> IF m[i].key = k THEN [key |-> k, val |-> v] ELSE m[i]]
    ELSE Append(m, [key |-> k, val |-> v])

\* Map.prototype.delete
MapDelete(m, k) == SelectSeq(m, LAMBDA kv : kv.key # k)

MapDeleteAll(m, ks) == SelectSeq(m, LAMBDA kv : kv.key \notin ks)

MapKeys(m) == {m[i].key : i \in 1..Len(m)}

(***************************************************************************)
(* Strings that hold JSON.  A JSON value is a tagged record; a data string *)
(* is either the text of a JSON value (ws: it is not in the form            *)
(* JSON.stringify prints, e.g. it has blanks) or a text JSON.parse rejects, *)
(* a sequence of tokens: words and runs of decimal digits.                  *)
(***************************************************************************)
JNum(n) == [t |-> "num", n |-> n]
JStr(s) == [t |-> "str", s |-> s]
JArr(xs) == [t |-> "arr", xs |-> xs]
JObj(fs) == [t |-> "obj", fs |-> fs]
JField(k, v) == [k |-> k, v |-> v]

JsonText(v, ws) == [k |-> "json", v |-> v, ws |-> ws]
RawText(toks) == [k |-> "raw", toks |-> toks]
Word(w) == [t |-> "word", w |-> w]
Digits(n) == [t |-> "digits", n |-> n]
Quoted(n) == [t |-> "quoted", q |-> n]
NullData == [k |-> "null"]

\* JSON.stringify of a value: the text in printed form
Stringify(v) == JsonText(v, FALSE)

\* index.ts:88  typeof value === 'number' && value > 999999999
LargeNumber == 999999999

\* index.ts:87-101
RECURSIVE processValue(_)
processValue(value) ==
    IF value.t = "num"
    THEN IF value.n > LargeNumber THEN JStr(ToString(value.n)) ELSE value
    ELSE IF value.t = "arr"
    THEN JArr([i \in 1..Len(value.xs) |-> processValue(value.xs[i])])
    ELSE IF value.t = "obj"
    THEN JObj([i \in 1..Len(value.fs) |->
                 JField(value.fs[i].k, processValue(value.fs[i].v))])
    ELSE value

\* index.ts:108-111  data.replace(/\b\d{10,}\b/g, m => `"${m}"`)
ReplaceLargeIntegers(toks) ==
    [i \in 1..Len(toks) |->
        IF toks[i].t = "digits" /\ toks[i].n > LargeNumber
        THEN Quoted(toks[i].n)
        ELSE toks[i]]

\* index.ts:79-113
ProcessData(data) ==
    IF data.k = "json" THEN Stringify(processValue(data.v))
    ELSE IF data.k = "raw" THEN RawText(ReplaceLargeIntegers(data.toks))
    ELSE data

(***************************************************************************)
(* The inputs.  Meta entries are content addressed: a cid stands for one   *)
(* payload and one parent list.  e1 and e2 are roots, e3 follows e1, and e4 *)
(* merges e3 and e2, so that e1 <- e3 <- e4 is a chain of three.            *)
(***************************************************************************)
Cids == {"e1", "e2", "e3", "e4"}

ParentsOf(cid) ==
    CASE cid = "e1" -> <<>>
      [] cid = "e2" -> <<>>
      [] cid = "e3" -> <<"e1">>
      [] OTHER      -> <<"e3", "e2">>

JStrs(ss) == JArr([i \in 1..Len(ss) |-> JStr(ss[i])])

\* a DbMetaEvent {eventCid, parents, dbMeta: {cars}} as a JSON value
DbMetaEvent(eventCid, parents, cars) ==
    JObj(<<JField("eventCid", JStr(eventCid)),
           JField("parents", JStrs(parents)),
           JField("dbMeta", JObj(<<JField("cars", JStrs(cars))>>))>>)

\* the content blocks the event cid refers to; the block of e1 is named
\* like the event
CarsOf(cid) ==
    CASE cid = "e1" -> <<"e1">>
      [] cid = "e2" -> <<"c2">>
      [] cid = "e3" -> <<"c3">>
      [] OTHER      -> <<"c4">>

\* the payload of the meta envelope (FPEnvelopeMeta) the gateway is given
\* for event cid: DbMetaEvent[]
EnvelopePayloadOf(cid) ==
    JArr(<<DbMetaEvent(cid, ParentsOf(cid), CarsOf(cid))>>)

\* the payload an HTTP client uploads for cid.  That of e1 is its envelope
\* payload; that of e2 holds a number of ten digits.
PayloadOf(cid) ==
    CASE cid = "e1" -> EnvelopePayloadOf("e1")
      [] cid = "e2" -> JObj(<<JField("ts", JNum(1700000000))>>)
      [] cid = "e3" -> JArr(<<JStr("c3")>>)
      [] OTHER      -> JNum(4)

DataOf(cid) == Stringify(PayloadOf(cid))

\* the {cid, data, parents} record of a meta upload
Entry(cid) == [cid |-> cid, data |-> DataOf(cid), parents |-> ParentsOf(cid)]

Entries == {Entry(c) : c \in Cids}

\* pointer names, as the segments between '/'
Pointers == {<<"main">>, <<"alt">>}

\* a pointer whose name holds a '/': "main/x"
NestedPointers == {<<"main">>, <<"main", "x">>}

AllPointers == Pointers \cup NestedPointers

\* PUT bodies: a single object is the array of itself (index.ts:61-65)
Bodies == UNION {[1..n -> Entries] : n \in 1..MaxBatch}

(***************************************************************************)
(* index.ts: the /fp endpoint, meta store.                                 *)
(***************************************************************************)
\* a store keyed by the pointer alone: a write replaces the pointer's entry
KeyOf_PointerOnly(meta, cid) == Append(meta, "head")

\* `${meta}/${cid}`
KeyOf(meta, cid) == Append(meta, cid)

\* a prefix test that matches the keys of every pointer
StartsWith_AnyPointer(key, meta) == Len(key) > Len(meta)

\* key.startsWith(`${meta}/`)
StartsWith(key, meta) ==
    Len(key) > Len(meta) /\ SubSeq(key, 1, Len(meta)) = meta

\* a response of index.ts with the request it answers: the method, the meta
\* or the car parameter, the status, and the body (c.json of the entries, or
\* the bytes)
NoBytes == [none |-> TRUE]

MetaResponse(method, meta, status, metas) ==
    [method |-> method, kind |-> "meta", meta |-> meta, car |-> "",
     status |-> status, metas |-> metas, bytes |-> NoBytes]

CarResponse(method, car, status, bytes) ==
    [method |-> method, kind |-> "car", meta |-> <<>>, car |-> car,
     status |-> status, metas |-> <<>>, bytes |-> bytes]

NoResponse ==
    [method |-> "none", kind |-> "none", meta |-> <<>>, car |-> "",
     status |-> 0, metas |-> <<>>, bytes |-> NoBytes]

\* a PUT that stores no parents
RECURSIVE StoreEntries_DropParents(_, _, _, _)
StoreEntries_DropParents(store, meta, entries, i) ==
    IF i > Len(entries) THEN store
    ELSE StoreEntries_DropParents(
            MapSet(store, Append(meta, entries[i].cid),
                   [data |-> ProcessData(entries[i].data), parents |-> <<>>]),
            meta, entries, i + 1)

\* a PUT that stores the first parent only
RECURSIVE StoreEntries_FirstParentOnly(_, _, _, _)
StoreEntries_FirstParentOnly(store, meta, entries, i) ==
    IF i > Len(entries) THEN store
    ELSE StoreEntries_FirstParentOnly(
            MapSet(store, Append(meta, entries[i].cid),
                   [data |-> ProcessData(entries[i].data),
                    parents |-> IF entries[i].parents = <<>> THEN <<>>
                                ELSE <<Head(entries[i].parents)>>]),
            meta, entries, i + 1)

\* index.ts:75-117  the loop of PUT meta over the entries of the body
RECURSIVE StoreEntries(_, _, _, _)
StoreEntries(store, meta, entries, i) ==
    IF i > Len(entries) THEN store
    ELSE StoreEntries(
            MapSet(store, KeyOf(meta, entries[i].cid),
                   [data |-> ProcessData(entries[i].data),
                    parents |-> entries[i].parents]),
            meta, entries, i + 1)

\* a pruning that also deletes the entry that lists the parents
RECURSIVE CollectEntries_DropsListers(_, _, _, _, _, _)
CollectEntries_DropsListers(store, meta, i, deleted, allParents, entries) ==
    IF i > Len(store)
    THEN [deleted |-> deleted, allParents |-> allParents, entries |-> entries]
    ELSE IF store[i].key \notin deleted /\ StartsWith(store[i].key, meta)
    THEN CollectEntries_DropsListers(store, meta, i + 1,
            deleted \cup {KeyOf(meta, p) : p \in Range(store[i].val.parents)}
                    \cup (IF store[i].val.parents # <<>> THEN {store[i].key} ELSE {}),
            allParents \o store[i].val.parents,
            Append(entries, [cid |-> store[i].key[2],
                             data |-> store[i].val.data,
                             parents |-> store[i].val.parents]))
    ELSE CollectEntries_DropsListers(store, meta, i + 1, deleted, allParents, entries)

\* index.ts:144-159  the loop of GET meta over metaStore.entries(): an entry
\* deleted before the iterator reaches it is not visited
RECURSIVE CollectEntries(_, _, _, _, _, _)
CollectEntries(store, meta, i, deleted, allParents, entries) ==
    IF i > Len(store)
    THEN [deleted |-> deleted, allParents |-> allParents, entries |-> entries]
    ELSE IF store[i].key \notin deleted /\ StartsWith(store[i].key, meta)
    THEN CollectEntries(store, meta, i + 1,
            deleted \cup {KeyOf(meta, p) : p \in Range(store[i].val.parents)},
            allParents \o store[i].val.parents,
            Append(entries, [cid |-> store[i].key[2],
                             data |-> store[i].val.data,
                             parents |-> store[i].val.parents]))
    ELSE CollectEntries(store, meta, i + 1, deleted, allParents, entries)

\* a filter that leaves the parents in
FilterEntries_NoPrune(entries, allParents) ==
    SelectSeq(entries, LAMBDA e : e.data # NullData)

\* index.ts:162-164
FilterEntries(entries, allParents) ==
    SelectSeq(entries,
              LAMBDA e : e.data # NullData /\ e.cid \notin Range(allParents))

WireEntry(e) == [cid |-> e.cid, parents |-> e.parents]

RECURSIVE ParentCids(_, _)
ParentCids(entries, i) ==
    IF i > Len(entries) THEN {}
    ELSE Range(entries[i].parents) \cup ParentCids(entries, i + 1)

TotalWrites == SumLen(hist, AllPointers)

\* index.ts:53-120  PUT /fp?meta=<meta>, and what it adds to the history
ServePutMeta(meta, body) ==
    /\ metaStore' = StoreEntries(metaStore, meta, body, 1)
    /\ resp' = MetaResponse("PUT", meta, 200, <<>>)
    /\ hist' = [hist EXCEPT ![meta] = @ \o [i \in 1..Len(body) |-> WireEntry(body[i])]]
    /\ parentsSeen' = [parentsSeen EXCEPT ![meta] = @ \cup ParentCids(body, 1)]

\* index.ts:137-169  GET /fp?meta=<meta>
ServeGetMeta(meta) ==
    LET r == CollectEntries(metaStore, meta, 1, {}, <<>>, <<>>) IN
    /\ metaStore' = MapDeleteAll(metaStore, r.deleted)
    /\ resp' = MetaResponse("GET", meta, 200,
                            FilterEntries(r.entries, r.allParents))
    /\ UNCHANGED <<hist, parentsSeen>>

\* index.ts:181-187, 193-199  the keys of a pointer, then their deletion
DeletePrefix(store, meta) ==
    MapDeleteAll(store, {k \in MapKeys(store) : StartsWith(k, meta)})

\* index.ts:178-189  DELETE /fp?meta=<meta>
ServeDeleteMeta(meta) ==
    /\ metaStore' = DeletePrefix(metaStore, meta)
    /\ resp' = MetaResponse("DELETE", meta, 200, <<>>)
    /\ hist' = [hist EXCEPT ![meta] = <<>>]
    /\ UNCHANGED parentsSeen

PutMeta(meta, body) ==
    /\ TotalWrites + Len(body) <= MaxWrites
    /\ ServePutMeta(meta, body)
    /\ UNCHANGED <<carFiles, carHist, gw, dMetaStore, dCarFiles, dConns, dresp,
                   disk, acked, sub, ids, open,
                   flight, lin, excluded, frames>>

GetMeta(meta) ==
    /\ ServeGetMeta(meta)
    /\ UNCHANGED <<carFiles, carHist, gw, dMetaStore, dCarFiles, dConns, dresp,
                   disk, acked, sub, ids, open,
                   flight, lin, excluded, frames>>

DeleteMeta(meta) ==
    /\ ServeDeleteMeta(meta)
    /\ UNCHANGED <<carFiles, carHist, gw, dMetaStore, dCarFiles, dConns, dresp,
                   disk, acked, sub, ids, open,
                   flight, lin, excluded, frames>>

\* index.ts:190-202  DELETE /fp with neither car nor meta: the keys of the
\* pointer "main" are deleted
DeleteGlobal ==
    /\ ServeDeleteMeta(<<"main">>)
    /\ UNCHANGED <<carFiles, carHist, gw, dMetaStore, dCarFiles, dConns, dresp,
                   disk, acked, sub, ids, open,
                   flight, lin, excluded, frames>>

(***************************************************************************)
(* index.ts: requests in flight at once.  A handler runs from the receipt  *)
(* of its request to its first await, and from there to its return,        *)
(* without another handler in between; the one await of a meta PUT is      *)
(* `await c.req.json()` (index.ts:59), and a GET has none.                 *)
(***************************************************************************)
Clients == {"c1", "c2"}

MaxOps == 3

Idle == [kind |-> "idle", meta |-> <<>>, body |-> <<>>, done |-> 0]

\* a request as the handler holds it; done is the number of entries of the
\* body the loop of the PUT has stored
PutReq(meta, body) == [kind |-> "put", meta |-> meta, body |-> body, done |-> 0]
GetReq(meta) == [kind |-> "get", meta |-> meta, body |-> <<>>, done |-> 0]

FlightBodies ==
    {<<Entry("e1")>>, <<Entry("e3")>>, <<Entry("e1"), Entry("e3")>>}

FlightReqs == {PutReq(<<"main">>, b) : b \in FlightBodies} \cup {GetReq(<<"main">>)}

InFlight == {c \in Clients : flight[c] # Idle}

\* a loop that gives way to other handlers after every entry
Batch_YieldsPerEntry(body, done) == <<body[done + 1]>>

\* index.ts:75-117  the entries the loop stores before another handler can
\* run: the loop has no await, so all that are left
Batch(body, done) == SubSeq(body, done + 1, Len(body))

\* index.ts:36-59  the request arrives; a PUT waits for its body
Receive(c, req) ==
    /\ flight[c] = Idle
    /\ Len(lin) + Cardinality(InFlight) < MaxOps
    /\ flight' = [flight EXCEPT ![c] = req]
    /\ UNCHANGED <<metaStore, carFiles, resp, gw, dMetaStore, dCarFiles, dConns,
                   dresp, hist, parentsSeen, carHist, disk, acked, sub, ids, open,
                   lin, excluded, frames>>

\* index.ts:60-120, 137-169  the handler runs on to its return, or to where
\* it next gives way
Run(c) ==
    /\ \/ /\ flight[c].kind = "put"
          /\ LET req == flight[c]
                 b == Batch(req.body, req.done)
                 returns == req.done + Len(b) = Len(req.body)
             IN /\ metaStore' = StoreEntries(metaStore, req.meta, b, 1)
                /\ hist' = [hist EXCEPT ![req.meta] =
                               @ \o [i \in 1..Len(b) |-> WireEntry(b[i])]]
                /\ parentsSeen' = [parentsSeen EXCEPT ![req.meta] =
                                      @ \cup ParentCids(b, 1)]
                /\ resp' = IF returns THEN MetaResponse("PUT", req.meta, 200, <<>>)
                           ELSE resp
                /\ flight' = [flight EXCEPT ![c] =
                                 IF returns THEN Idle
                                 ELSE [req EXCEPT !.done = @ + Len(b)]]
                /\ lin' = IF returns THEN Append(lin, [req EXCEPT !.done = 0])
                          ELSE lin
       \/ /\ flight[c].kind = "get"
          /\ ServeGetMeta(flight[c].meta)
          /\ flight' = [flight EXCEPT ![c] = Idle]
          /\ lin' = Append(lin, flight[c])
    /\ UNCHANGED <<carFiles, gw, dMetaStore, dCarFiles, dConns, dresp, carHist,
                   disk, acked, sub, ids, open, excluded, frames>>

\* the meta endpoint under writes that come again: single entries of the
\* chain e1 <- e3 <- e4
MaxReplayWrites == 4

ReplayBodies == {<<Entry("e1")>>, <<Entry("e3")>>, <<Entry("e4")>>}

ReplayPut(meta, body) ==
    /\ Len(hist[meta]) + Len(body) <= MaxReplayWrites
    /\ ServePutMeta(meta, body)
    /\ UNCHANGED <<carFiles, carHist, gw, dMetaStore, dCarFiles, dConns, dresp,
                   disk, acked, sub, ids, open, flight, lin, excluded, frames>>

\* the GET, and the written cids it leaves out because they are in allParents
ReplayGet(meta) ==
    /\ ServeGetMeta(meta)
    /\ excluded' = [excluded EXCEPT ![meta] =
                       @ \cup (Range(CollectEntries(metaStore, meta, 1, {}, <<>>,
                                                    <<>>).allParents)
                                 \cap {h.cid : h \in Range(hist[meta])})]
    /\ UNCHANGED <<carFiles, carHist, gw, dMetaStore, dCarFiles, dConns, dresp,
                   disk, acked, sub, ids, open, flight, lin, frames>>

ReplayDelete(meta) ==
    /\ ServeDeleteMeta(meta)
    /\ excluded' = [excluded EXCEPT ![meta] = {}]
    /\ UNCHANGED <<carFiles, carHist, gw, dMetaStore, dCarFiles, dConns, dresp,
                   disk, acked, sub, ids, open, flight, lin, frames>>

(***************************************************************************)
(* index.ts: the /fp endpoint, content store.  Bytes are either given as   *)
(* such or are the UTF-8 encoding of a text.                               *)
(***************************************************************************)
RawBytes(bs) == [raw |-> bs]
Utf8(text) == [utf8 |-> text]

CarKeys == {"k1", "k2"}

\* bodies of a content upload; the first is empty
CarBodies == {RawBytes(<<>>), RawBytes(<<7>>)}

\* index.ts:46-52  PUT /fp?car=<car>
ServePutCar(car, bytes) ==
    /\ carFiles' = MapSet(carFiles, car, bytes)
    /\ resp' = CarResponse("PUT", car, 200, NoBytes)
    /\ carHist' = [carHist EXCEPT ![car] = Append(@, bytes)]

\* a GET that takes an empty body for a missing one
ServeGetCar_EmptyIsMissing(car) ==
    /\ resp' = IF MapHas(carFiles, car) /\ MapGet(carFiles, car) # RawBytes(<<>>)
               THEN CarResponse("GET", car, 200, MapGet(carFiles, car))
               ELSE CarResponse("GET", car, 404, NoBytes)
    /\ UNCHANGED <<carFiles, carHist>>

\* index.ts:123-136  GET /fp?car=<car>
ServeGetCar(car) ==
    /\ resp' = IF MapHas(carFiles, car)
               THEN CarResponse("GET", car, 200, MapGet(carFiles, car))
               ELSE CarResponse("GET", car, 404, NoBytes)
    /\ UNCHANGED <<carFiles, carHist>>

\* a DELETE that answers 404 when nothing is stored
ServeDeleteCar_AbsentIsNotFound(car) ==
    /\ carFiles' = MapDelete(carFiles, car)
    /\ resp' = CarResponse("DELETE", car,
                           IF MapHas(carFiles, car) THEN 200 ELSE 404, NoBytes)
    /\ carHist' = [carHist EXCEPT ![car] = <<>>]

\* index.ts:172-177  DELETE /fp?car=<car>
ServeDeleteCar(car) ==
    /\ carFiles' = MapDelete(carFiles, car)
    /\ resp' = CarResponse("DELETE", car, 200, NoBytes)
    /\ carHist' = [carHist EXCEPT ![car] = <<>>]

PutCar(car, bytes) ==
    /\ Len(carHist[car]) < MaxCarPuts
    /\ ServePutCar(car, bytes)
    /\ UNCHANGED <<metaStore, hist, parentsSeen, gw, dMetaStore, dCarFiles, dConns, dresp,
                   disk, acked, sub, ids, open,
                   flight, lin, excluded, frames>>

GetCar(car) ==
    /\ ServeGetCar(car)
    /\ UNCHANGED <<metaStore, hist, parentsSeen, gw, dMetaStore, dCarFiles, dConns, dresp,
                   disk, acked, sub, ids, open,
                   flight, lin, excluded, frames>>

DeleteCar(car) ==
    /\ ServeDeleteCar(car)
    /\ UNCHANGED <<metaStore, hist, parentsSeen, gw, dMetaStore, dCarFiles, dConns, dresp,
                   disk, acked, sub, ids, open,
                   flight, lin, excluded, frames>>

(***************************************************************************)
(* gateway.ts: HttpSerdeGateway, a client of index.ts.  A URL is its store *)
(* kind, its name parameter (<<>>: none) and its key parameter.  A call    *)
(* sends at most one request; net is whether fetch reaches the server or   *)
(* rejects.                                                                *)
(***************************************************************************)
Url(store, name, key) == [store |-> store, name |-> name, key |-> key]

\* meta URLs: without a name and with the name "alt", for the chain e1 <- e3
MetaUrls == {Url("meta", n, k) : n \in {<<>>, <<"alt">>}, k \in {"e1", "e3"}}
CarUrls == {Url("car", <<>>, "k1")}
OtherUrls == {Url("wal", <<>>, "k1")}

\* one URL of each kind, for the calls under every transport outcome
NetUrls == {Url("car", <<>>, "k1"), Url("meta", <<>>, "e1"), Url("wal", <<>>, "k1")}

\* the payloads of the envelopes put under a URL
EnvelopePayloads(url) ==
    IF url.store = "meta" THEN {EnvelopePayloadOf(url.key)}
    ELSE {JNum(4)}

\* gateway.ts:78, 132, 181  url.getParam(PARAM.NAME) || "main"
NameOrMain(url) == IF url.name = <<>> THEN <<"main">> ELSE url.name

NoPayload == [t |-> "none"]

\* the Result of a call, with the call (op, url, arg) it answers
Ok(op, url, arg, payload) ==
    [op |-> op, url |-> url, arg |-> arg, ok |-> TRUE, err |-> "none",
     payload |-> payload, thrown |-> FALSE]

Err(op, url, arg, err) ==
    [op |-> op, url |-> url, arg |-> arg, ok |-> FALSE, err |-> err,
     payload |-> NoPayload, thrown |-> FALSE]

\* an exception on its way out of the try block of a call
Thrown(op, url, arg, err) ==
    [op |-> op, url |-> url, arg |-> arg, ok |-> FALSE, err |-> err,
     payload |-> NoPayload, thrown |-> TRUE]

\* a catch that lets the exception go on to the caller
Catch_Rethrow(r) == r

\* gateway.ts:100-103, 161-164, 192-194, 220-222
\* catch (error) { return Result.Err(error as Error) }
Catch(r) == IF r.thrown THEN Err(r.op, r.url, r.arg, r.err) ELSE r

\* what the transport does with a request: "up" hands it to the server and
\* brings its response back, "down" is a network-level exception (fetch
\* rejects), and the others are a status the remote end answers in place of
\* the server
Nets == {"up", "down", "notfound", "unavailable"}
Faults == {"notfound", "unavailable"}

\* new Error(`HTTP ${response.status}: ${response.statusText}`)
HttpError(status) ==
    CASE status = 404 -> "HTTP 404"
      [] status = 503 -> "HTTP 503"
      [] OTHER -> "HTTP error"

\* the response of fetch under a fault
FaultResponse(net) == [status |-> IF net = "notfound" THEN 404 ELSE 503]

NoResult == Err("none", Url("none", <<>>, ""), NoPayload, "none")

\* response.ok
ResponseOk(r) == r.status >= 200 /\ r.status <= 299

\* gateway.ts:82-86  the record a meta put uploads
MetaUpload(key, payload) ==
    [cid |-> key, data |-> Stringify(payload), parents |-> <<>>]

\* gateway.ts:65  new TextEncoder().encode(JSON.stringify(envelope.payload))
PayloadBytes(payload) == Utf8(Stringify(payload))

\* a put that takes 404 for a success, as delete does
PutResult_NotFoundOk(url, payload, r) ==
    IF ResponseOk(r) \/ r.status = 404 THEN Ok("put", url, payload, NoPayload)
    ELSE Thrown("put", url, payload, HttpError(r.status))

\* gateway.ts:73-75, 94-99  if (!response.ok) throw new Error(...);
\* return Result.Ok(undefined)
PutResult(url, payload, r) ==
    IF ResponseOk(r) THEN Ok("put", url, payload, NoPayload)
    ELSE Thrown("put", url, payload, HttpError(r.status))

\* gateway.ts:55-104  HttpSerdeGateway.put
GwPut(url, payload, net) ==
    \/ /\ url.store = "car"
       /\ net = "up"
       /\ Len(carHist[url.key]) < MaxCarPuts
       /\ ServePutCar(url.key, PayloadBytes(payload))
       /\ gw' = Catch(PutResult(url, payload, resp'))
       /\ UNCHANGED <<metaStore, hist, parentsSeen, dMetaStore, dCarFiles, dConns, dresp,
                   disk, acked, sub, ids, open,
                   flight, lin, excluded, frames>>
    \/ /\ url.store = "meta"
       /\ net = "up"
       /\ TotalWrites < MaxWrites
       /\ ServePutMeta(NameOrMain(url), <<MetaUpload(url.key, payload)>>)
       /\ gw' = Catch(PutResult(url, payload, resp'))
       /\ UNCHANGED <<carFiles, carHist, dMetaStore, dCarFiles, dConns, dresp, disk, acked, sub, ids, open,
                   flight, lin, excluded, frames>>
    \/ /\ url.store \in {"car", "meta"}
       /\ net = "down"
       /\ gw' = Catch(Thrown("put", url, payload, "Error"))
       /\ UNCHANGED <<metaStore, carFiles, resp, hist, parentsSeen, carHist,
                      dMetaStore, dCarFiles, dConns, dresp,
                   disk, acked, sub, ids, open,
                   flight, lin, excluded, frames>>
    \/ /\ url.store \in {"car", "meta"}
       /\ net \in Faults
       /\ gw' = Catch(PutResult(url, payload, FaultResponse(net)))
       /\ UNCHANGED <<metaStore, carFiles, resp, hist, parentsSeen, carHist,
                      dMetaStore, dCarFiles, dConns, dresp,
                   disk, acked, sub, ids, open,
                   flight, lin, excluded, frames>>
    \/ /\ url.store \notin {"car", "meta"}
       /\ gw' = Ok("put", url, payload, NoPayload)
       /\ UNCHANGED <<metaStore, carFiles, resp, hist, parentsSeen, carHist,
                      dMetaStore, dCarFiles, dConns, dresp,
                   disk, acked, sub, ids, open,
                   flight, lin, excluded, frames>>

\* the bytes are the UTF-8 encoding of a JSON text
ParsesAsJson(bytes) == "utf8" \in DOMAIN bytes /\ bytes.utf8.k = "json"

\* a get that reports 404 as any other status
CarResult_NotFoundGeneric(url, r) ==
    IF ~ResponseOk(r) THEN Thrown("get", url, NoPayload, HttpError(r.status))
    ELSE IF ParsesAsJson(r.bytes) THEN Ok("get", url, NoPayload, r.bytes.utf8.v)
    ELSE Thrown("get", url, NoPayload, "SyntaxError")

\* gateway.ts:116-129  TextDecoder().decode, then JSON.parse, which throws on
\* a text that is no JSON
CarResult(url, r) ==
    IF r.status = 404 THEN Err("get", url, NoPayload, "NotFound")
    ELSE IF ~ResponseOk(r) THEN Thrown("get", url, NoPayload, HttpError(r.status))
    ELSE IF ParsesAsJson(r.bytes)
    THEN Ok("get", url, NoPayload, r.bytes.utf8.v)
    ELSE Thrown("get", url, NoPayload, "SyntaxError")

\* gateway.ts:146-152  an entry of the response as a DbMetaEvent
FireproofMeta(entries) ==
    JArr([i \in 1..Len(entries) |->
            DbMetaEvent(entries[i].cid, entries[i].parents,
                        IF entries[i].cid # "" THEN <<entries[i].cid>> ELSE <<>>)])

\* gateway.ts:135-157
MetaResult(url, r) ==
    IF r.status = 404 THEN Err("get", url, NoPayload, "NotFound")
    ELSE IF ~ResponseOk(r) THEN Thrown("get", url, NoPayload, HttpError(r.status))
    ELSE Ok("get", url, NoPayload, FireproofMeta(r.metas))

\* gateway.ts:106-165  HttpSerdeGateway.get
GwGet(url, net) ==
    \/ /\ url.store = "car"
       /\ net = "up"
       /\ ServeGetCar(url.key)
       /\ gw' = Catch(CarResult(url, resp'))
       /\ UNCHANGED <<metaStore, hist, parentsSeen, dMetaStore, dCarFiles, dConns, dresp,
                   disk, acked, sub, ids, open,
                   flight, lin, excluded, frames>>
    \/ /\ url.store = "meta"
       /\ net = "up"
       /\ ServeGetMeta(NameOrMain(url))
       /\ gw' = Catch(MetaResult(url, resp'))
       /\ UNCHANGED <<carFiles, carHist, dMetaStore, dCarFiles, dConns, dresp, disk, acked, sub, ids, open,
                   flight, lin, excluded, frames>>
    \/ /\ url.store \in {"car", "meta"}
       /\ net = "down"
       /\ gw' = Catch(Thrown("get", url, NoPayload, "Error"))
       /\ UNCHANGED <<metaStore, carFiles, resp, hist, parentsSeen, carHist,
                      dMetaStore, dCarFiles, dConns, dresp,
                   disk, acked, sub, ids, open,
                   flight, lin, excluded, frames>>
    \/ /\ url.store = "car"
       /\ net \in Faults
       /\ gw' = Catch(CarResult(url, FaultResponse(net)))
       /\ UNCHANGED <<metaStore, carFiles, resp, hist, parentsSeen, carHist,
                      dMetaStore, dCarFiles, dConns, dresp,
                   disk, acked, sub, ids, open,
                   flight, lin, excluded, frames>>
    \/ /\ url.store = "meta"
       /\ net \in Faults
       /\ gw' = Catch(MetaResult(url, FaultResponse(net)))
       /\ UNCHANGED <<metaStore, carFiles, resp, hist, parentsSeen, carHist,
                      dMetaStore, dCarFiles, dConns, dresp,
                   disk, acked, sub, ids, open,
                   flight, lin, excluded, frames>>
    \/ /\ url.store \notin {"car", "meta"}
       /\ gw' = Err("get", url, NoPayload, "NotFound")
       /\ UNCHANGED <<metaStore, carFiles, resp, hist, parentsSeen, carHist,
                      dMetaStore, dCarFiles, dConns, dresp,
                   disk, acked, sub, ids, open,
                   flight, lin, excluded, frames>>

\* a delete that takes 404 for a failure, as put does
DeleteResult_NotFoundFails(url, r) ==
    IF ~ResponseOk(r) THEN Thrown("delete", url, NoPayload, HttpError(r.status))
    ELSE Ok("delete", url, NoPayload, NoPayload)

\* gateway.ts:177-179, 186-188, 191
\* if (!response.ok && response.status !== 404) throw new Error(...)
DeleteResult(url, r) ==
    IF ~ResponseOk(r) /\ r.status # 404
    THEN Thrown("delete", url, NoPayload, HttpError(r.status))
    ELSE Ok("delete", url, NoPayload, NoPayload)

\* gateway.ts:167-195  HttpSerdeGateway.delete
GwDelete(url, net) ==
    \/ /\ url.store = "car"
       /\ net = "up"
       /\ ServeDeleteCar(url.key)
       /\ gw' = Catch(DeleteResult(url, resp'))
       /\ UNCHANGED <<metaStore, hist, parentsSeen, dMetaStore, dCarFiles, dConns, dresp,
                   disk, acked, sub, ids, open,
                   flight, lin, excluded, frames>>
    \/ /\ url.store = "meta"
       /\ net = "up"
       /\ ServeDeleteMeta(NameOrMain(url))
       /\ gw' = Catch(DeleteResult(url, resp'))
       /\ UNCHANGED <<carFiles, carHist, dMetaStore, dCarFiles, dConns, dresp, disk, acked, sub, ids, open,
                   flight, lin, excluded, frames>>
    \/ /\ url.store \in {"car", "meta"}
       /\ net = "down"
       /\ gw' = Catch(Thrown("delete", url, NoPayload, "Error"))
       /\ UNCHANGED <<metaStore, carFiles, resp, hist, parentsSeen, carHist,
                      dMetaStore, dCarFiles, dConns, dresp,
                   disk, acked, sub, ids, open,
                   flight, lin, excluded, frames>>
    \/ /\ url.store \in {"car", "meta"}
       /\ net \in Faults
       /\ gw' = Catch(DeleteResult(url, FaultResponse(net)))
       /\ UNCHANGED <<metaStore, carFiles, resp, hist, parentsSeen, carHist,
                      dMetaStore, dCarFiles, dConns, dresp,
                   disk, acked, sub, ids, open,
                   flight, lin, excluded, frames>>
    \/ /\ url.store \notin {"car", "meta"}
       /\ gw' = Ok("delete", url, NoPayload, NoPayload)
       /\ UNCHANGED <<metaStore, carFiles, resp, hist, parentsSeen, carHist,
                      dMetaStore, dCarFiles, dConns, dresp,
                   disk, acked, sub, ids, open,
                   flight, lin, excluded, frames>>

\* a getPlain that reports 404 as any other status
PlainResult_NotFoundGeneric(url, key, r) ==
    IF ~ResponseOk(r) THEN Thrown("getPlain", url, key, HttpError(r.status))
    ELSE Ok("getPlain", url, key, r.bytes)

\* gateway.ts:211-219  the response of getPlain's request
PlainResult(url, key, r) ==
    IF r.status = 404 THEN Err("getPlain", url, key, "NotFound")
    ELSE IF ~ResponseOk(r) THEN Thrown("getPlain", url, key, HttpError(r.status))
    ELSE Ok("getPlain", url, key, r.bytes)

\* gateway.ts:207-223  HttpSerdeGateway.getPlain(_ctx, _url, key): the URL is
\* not looked at, whatever its store kind
GwGetPlain(url, key, net) ==
    \/ /\ net = "up"
       /\ ServeGetCar(key)
       /\ gw' = Catch(PlainResult(url, key, resp'))
       /\ UNCHANGED <<metaStore, hist, parentsSeen, dMetaStore, dCarFiles, dConns, dresp,
                   disk, acked, sub, ids, open,
                   flight, lin, excluded, frames>>
    \/ /\ net = "down"
       /\ gw' = Catch(Thrown("getPlain", url, key, "Error"))
       /\ UNCHANGED <<metaStore, carFiles, resp, hist, parentsSeen, carHist,
                      dMetaStore, dCarFiles, dConns, dresp,
                   disk, acked, sub, ids, open,
                   flight, lin, excluded, frames>>
    \/ /\ net \in Faults
       /\ gw' = Catch(PlainResult(url, key, FaultResponse(net)))
       /\ UNCHANGED <<metaStore, carFiles, resp, hist, parentsSeen, carHist,
                      dMetaStore, dCarFiles, dConns, dresp,
                   disk, acked, sub, ids, open,
                   flight, lin, excluded, frames>>

\* before the first subscribe: no handle given out, no callback invoked, no
\* handle called
NoSubscription == [handles |-> {}, invoked |-> {}, released |-> {}]

\* the callbacks of the callers
Callbacks == {"cb1", "cb2"}

\* () => {}
UnsubscribeHandle == [t |-> "handle"]

\* a subscribe that reports that the transport cannot push
subscribe_Unsupported(url, callback) ==
    Err("subscribe", url, NoPayload, "Error")

\* gateway.ts:197-205  neither parameter is read
subscribe(url, callback) == Ok("subscribe", url, NoPayload, UnsubscribeHandle)

GwSubscribe(url, callback) ==
    /\ callback \notin sub.handles
    /\ gw' = subscribe(url, callback)
    /\ sub' = [sub EXCEPT !.handles = @ \cup {callback}]
    /\ UNCHANGED <<metaStore, carFiles, resp, hist, parentsSeen, carHist,
                   dMetaStore, dCarFiles, dConns, dresp, disk, acked, ids, open,
                   flight, lin, excluded, frames>>

\* gateway.ts:203  a call of the handle: its body is empty
GwUnsubscribe(callback) ==
    /\ callback \in sub.handles \ sub.released
    /\ sub' = [sub EXCEPT !.released = @ \cup {callback}]
    /\ UNCHANGED <<metaStore, carFiles, resp, gw, hist, parentsSeen, carHist,
                   dMetaStore, dCarFiles, dConns, dresp, disk, acked, ids, open,
                   flight, lin, excluded, frames>>

(***************************************************************************)
(* fireproof-backend.ts: SimpleMsgDispatcher over the module's own         *)
(* metaStore.  A message is its type, its tid and the entries of           *)
(* msg.meta.metas (none when msg.meta is missing).                         *)
(***************************************************************************)
Tids == {"t1", "t2"}

\* msg.urlParam?.key of a message without urlParam
NoKey == ""

\* msg.conn?.reqId of a message without conn; the ids of sthis.nextId are
\* 1, 2, ... in the order they are given out, and each is given out once
NoId == 0

\* the conn of a body without one
NoConn == [reqId |-> NoId, resId |-> NoId]

MaxIds == 4

\* a JSON null among the elements of msg.meta.metas
NullEntry == [null |-> TRUE]
IsNull(e) == "null" \in DOMAIN e

Msg(type, tid, metas) ==
    [type |-> type, tid |-> tid, metas |-> metas, key |-> NoKey, reqId |-> NoId]

\* a message about the content of key: {type, tid, urlParam: {key}}
DataMsg(type, tid, key) ==
    [type |-> type, tid |-> tid, metas |-> <<>>, key |-> key, reqId |-> NoId]

\* reqOpen of a client that names its own request id: {type, tid, conn: {reqId}}
OpenMsg(tid, reqId) ==
    [type |-> "reqOpen", tid |-> tid, metas |-> <<>>, key |-> NoKey, reqId |-> reqId]

\* msg.meta.metas of the put-meta and del-meta messages: the chain e1 <- e3
DispBodies == UNION {[1..n -> {Entry("e1"), Entry("e3")}] : n \in 1..MaxBatch}

MetaMsgs ==
    {Msg(ty, tid, ms) : ty \in {"reqPutMeta", "reqDelMeta"}, tid \in Tids,
                        ms \in DispBodies \cup {<<>>}}

PlainMsgs == {Msg(ty, tid, <<>>) : ty \in {"reqGetMeta", "reqBogus"}, tid \in Tids}

\* the types of the routing table that touch no store
OtherMsgs == {Msg(ty, "t1", <<>>) : ty \in {"reqGestalt", "reqOpen", "bindGetMeta"}}

\* reqOpen with and without a request id of the client's; the client's id is
\* one the server may have given to a socket
OpenMsgs == {OpenMsg("t1", reqId) : reqId \in {NoId, 1}}

DataKeys == {"k1", NoKey}

DataMsgs ==
    {DataMsg(ty, "t1", k) : ty \in {"reqPutData", "reqGetData", "reqDelData"},
                           k \in DataKeys}

\* messages whose metas hold a null, after an entry or alone
NullMsgs ==
    {Msg(ty, "t2", ms) : ty \in {"reqPutMeta", "reqDelMeta"},
                        ms \in {<<NullEntry>>, <<Entry("e2"), NullEntry>>}}

\* `http://localhost:3001/upload/${key}` as its path segments; no location
NoUrl == <<>>
UploadUrl(key) == <<"upload", key>>

\* a Response of the dispatcher: the status and the JSON body.  type "" and
\* tid "" stand for a body without the field, data NoBytes and signedUrl
\* NoUrl likewise; data NullEntry is the JSON null.
MsgResponse(status, type, tid, metas, error) ==
    [status |-> status, type |-> type, tid |-> tid, metas |-> metas,
     error |-> error, signedUrl |-> NoUrl, data |-> NoBytes, conn |-> NoConn]

DataResponse(type, tid, signedUrl, data) ==
    [status |-> 200, type |-> type, tid |-> tid, metas |-> <<>>,
     error |-> "", signedUrl |-> signedUrl, data |-> data, conn |-> NoConn]

NoMsgResponse == MsgResponse(0, "none", "", <<>>, "")

\* what a handler leaves behind: the store, its Response, and whether it
\* threw instead of returning it
Returned(store, r) == [store |-> store, resp |-> r, thrown |-> FALSE]
Threw(store) == [store |-> store, resp |-> NoMsgResponse, thrown |-> TRUE]

\* fireproof-backend.ts:176-185  the loop of handlePutMeta; metaEntry.cid of
\* a null throws a TypeError, with the entries before it stored
RECURSIVE SetMetas(_, _, _)
SetMetas(store, metas, i) ==
    IF i > Len(metas) THEN [store |-> store, thrown |-> FALSE]
    ELSE IF IsNull(metas[i]) THEN [store |-> store, thrown |-> TRUE]
    ELSE SetMetas(MapSet(store, <<"main", metas[i].cid>>,
                         [data |-> metas[i].data, parents |-> metas[i].parents]),
                  metas, i + 1)

\* fireproof-backend.ts:171-198
handlePutMeta(store, msg) ==
    LET r == SetMetas(store, msg.metas, 1) IN
    IF r.thrown THEN Threw(r.store)
    ELSE Returned(r.store, MsgResponse(200, "resPutMeta", msg.tid, <<>>, ""))

\* fireproof-backend.ts:201-212  every entry under 'main/'
MainEntries(store) ==
    LET main == SelectSeq(store, LAMBDA kv : StartsWith(kv.key, <<"main">>)) IN
    [i \in 1..Len(main) |->
        [cid |-> main[i].key[2], data |-> main[i].val.data,
         parents |-> main[i].val.parents]]

\* fireproof-backend.ts:200-221
handleGetMeta(store, msg) ==
    Returned(store, MsgResponse(200, "resGetMeta", msg.tid, MainEntries(store), ""))

\* fireproof-backend.ts:226-232  the loop of handleDelMeta
RECURSIVE DelMetas(_, _, _)
DelMetas(store, metas, i) ==
    IF i > Len(metas) THEN [store |-> store, thrown |-> FALSE]
    ELSE IF IsNull(metas[i]) THEN [store |-> store, thrown |-> TRUE]
    ELSE DelMetas(MapDelete(store, <<"main", metas[i].cid>>), metas, i + 1)

\* fireproof-backend.ts:223-241
handleDelMeta(store, msg) ==
    LET r == DelMetas(store, msg.metas, 1) IN
    IF r.thrown THEN Threw(r.store)
    ELSE Returned(r.store, MsgResponse(200, "resDelMeta", msg.tid, <<>>, ""))

\* fireproof-backend.ts:117-145  the gestalt is a constant of the server
handleGestalt(store, msg) ==
    Returned(store, MsgResponse(200, "resGestalt", msg.tid, <<>>, ""))

\* the ids a message makes its handler draw from sthis.nextId
IdsUsed(msg) ==
    IF msg.type # "reqOpen" THEN 0 ELSE IF msg.reqId # NoId THEN 1 ELSE 2

\* fireproof-backend.ts:152-155  msg.conn?.reqId || nextId, then nextId
OpenConn(msg) ==
    IF msg.reqId # NoId THEN [reqId |-> msg.reqId, resId |-> ids + 1]
    ELSE [reqId |-> ids + 1, resId |-> ids + 2]

\* fireproof-backend.ts:148-169  the answer carries the connection id; no
\* statement of the handler touches wsRoom
handleOpen(store, msg) ==
    Returned(store, [MsgResponse(200, "resOpen", msg.tid, <<>>, "")
                        EXCEPT !.conn = OpenConn(msg)])

\* fireproof-backend.ts:243-262  msg.urlParam?.key || 'unknown'
handlePutData(store, msg) ==
    Returned(store,
             DataResponse("resPutData", msg.tid,
                          UploadUrl(IF msg.key = NoKey THEN "unknown" ELSE msg.key),
                          NoBytes))

\* fireproof-backend.ts:264-273  data: null, whatever is stored
handleGetData(store, msg) ==
    Returned(store, DataResponse("resGetData", msg.tid, NoUrl, NullEntry))

\* fireproof-backend.ts:275-283
handleDelData(store, msg) ==
    Returned(store, MsgResponse(200, "resDelData", msg.tid, <<>>, ""))

\* fireproof-backend.ts:285-309  the answer of handleGetMeta
handleBindGetMeta(store, msg) ==
    Returned(store, MsgResponse(200, "resGetMeta", msg.tid, MainEntries(store), ""))

\* a default branch that falls through to the put-meta case
handleUnknown_FallsThrough(store, msg) == handlePutMeta(store, msg)

\* fireproof-backend.ts:101-106  default: 400 {error: 'Unknown message type'}
handleUnknown(store, msg) ==
    Returned(store, MsgResponse(400, "", "", <<>>, "Unknown message type"))

\* a catch that answers as the default branch does
Caught_BadRequest(store) ==
    [store |-> store,
     resp |-> MsgResponse(400, "", "", <<>>, "Unknown message type")]

\* fireproof-backend.ts:108-114  catch: 500 {error: 'Internal server error'}
Caught(store) ==
    [store |-> store,
     resp |-> MsgResponse(500, "", "", <<>>, "Internal server error")]

\* fireproof-backend.ts:83-107  the switch on msg.type
Route(store, msg) ==
    CASE msg.type = "reqGestalt" -> handleGestalt(store, msg)
      [] msg.type = "reqOpen" -> handleOpen(store, msg)
      [] msg.type = "reqPutMeta" -> handlePutMeta(store, msg)
      [] msg.type = "reqGetMeta" -> handleGetMeta(store, msg)
      [] msg.type = "reqDelMeta" -> handleDelMeta(store, msg)
      [] msg.type = "reqPutData" -> handlePutData(store, msg)
      [] msg.type = "reqGetData" -> handleGetData(store, msg)
      [] msg.type = "reqDelData" -> handleDelData(store, msg)
      [] msg.type = "bindGetMeta" -> handleBindGetMeta(store, msg)
      [] OTHER -> handleUnknown(store, msg)

\* fireproof-backend.ts:76-115
dispatch(store, msg) ==
    LET r == Route(store, msg) IN
    IF r.thrown THEN Caught(r.store)
    ELSE [store |-> r.store, resp |-> r.resp]

\* fireproof-backend.ts:376-395  a control message PUT to /fp
Dispatch(msg) ==
    /\ ids + IdsUsed(msg) <= MaxIds
    /\ dMetaStore' = dispatch(dMetaStore, msg).store
    /\ dresp' = dispatch(dMetaStore, msg).resp
    /\ ids' = ids + IdsUsed(msg)
    /\ UNCHANGED <<metaStore, carFiles, resp, gw, dCarFiles, dConns,
                   hist, parentsSeen, carHist,
                   disk, acked, sub, open,
                   flight, lin, excluded, frames>>

\* fireproof-backend.ts:769-789  PUT /upload/:filename; its answer
\* {status: 'ok', filename, size} is no Response of the dispatcher
Upload(filename, bytes) ==
    /\ dCarFiles' = MapSet(dCarFiles, filename, bytes)
    /\ UNCHANGED <<metaStore, carFiles, resp, gw, dMetaStore, dConns, dresp,
                   hist, parentsSeen, carHist,
                   disk, acked, sub, ids, open,
                   flight, lin, excluded, frames>>

\* the GET of a location: fireproof-backend.ts has no route that serves the
\* bytes of carFiles; a GET falls to the catch-all route, which answers 404
\* (fireproof-backend.ts:859-864)
Download(files, url) == NoBytes

Sockets == {"w1", "w2"}

\* qsidKey(conn): the key of a connection id in the room
qsidKey(conn) == <<conn.reqId, conn.resId>>

\* fireproof-backend.ts:41-45  removeConn of one connection id
removeConn(conns, conn) == MapDelete(conns, qsidKey(conn))

\* a room keyed by the request id alone
addConn_ByReqId(conns, ws, conn) ==
    MapSet(conns, <<conn.reqId>>, [ws |-> ws, conn |-> conn])

\* fireproof-backend.ts:47-51
addConn(conns, ws, conn) == MapSet(conns, qsidKey(conn), [ws |-> ws, conn |-> conn])

\* fireproof-backend.ts:53-58  conn NoConn is a message without conn, which
\* MsgIsWithConn rejects
isConnected(conns, conn) == conn # NoConn /\ MapHas(conns, qsidKey(conn))

\* fireproof-backend.ts:482-490  onOpen: addConn under two fresh ids
WsOpen(ws) ==
    /\ ws \notin open
    /\ ids + 2 <= MaxIds
    /\ dConns' = addConn(dConns, ws, [reqId |-> ids + 1, resId |-> ids + 2])
    /\ ids' = ids + 2
    /\ open' = open \cup {ws}
    /\ UNCHANGED <<metaStore, carFiles, resp, gw, dMetaStore, dCarFiles, dresp,
                   hist, parentsSeen, carHist,
                   disk, acked, sub,
                   flight, lin, excluded, frames>>

\* fireproof-backend.ts:539-549  onClose: the first connection of the room
\* that holds the socket is removed, and the loop ends
WsClose(ws) ==
    /\ ws \in open
    /\ dConns' = IF \E i \in 1..Len(dConns) : dConns[i].val.ws = ws
                 THEN removeConn(dConns,
                                 dConns[CHOOSE i \in 1..Len(dConns) :
                                           /\ dConns[i].val.ws = ws
                                           /\ \A j \in 1..(i - 1) :
                                                 dConns[j].val.ws # ws].val.conn)
                 ELSE dConns
    /\ open' = open \ {ws}
    /\ UNCHANGED <<metaStore, carFiles, resp, gw, dMetaStore, dCarFiles, dresp,
                   hist, parentsSeen, carHist,
                   disk, acked, sub, ids,
                   flight, lin, excluded, frames>>

\* the methods and the query parameter of a store request to /fp
Methods == {"GET", "PUT", "DELETE"}
StoreKinds == {"meta", "car"}

\* the answer to a store request, in the form of the answers of index.ts
StoreResponse(method, kind, status) ==
    IF kind = "meta" THEN MetaResponse(method, <<"main">>, status, <<>>)
    ELSE CarResponse(method, "k1", status, NoBytes)

\* fireproof-backend.ts:362-408  the first handler of /fp, which answers
\* every request, so that the handler of 867-956 is never run.  It reads no
\* query parameter: a PUT body is taken for a control message (the entry of
\* a meta upload has no type and is answered 400 by the dispatcher; the
\* bytes of a content upload are no JSON, and c.req.json() throws, 500);
\* every other method is answered 405.
FpStoreRequest(method, kind) ==
    /\ resp' = StoreResponse(method, kind,
                             IF method # "PUT" THEN 405
                             ELSE IF kind = "meta"
                                  THEN dispatch(dMetaStore,
                                                Msg("", "", <<>>)).resp.status
                                  ELSE 500)
    /\ UNCHANGED <<metaStore, carFiles, gw, dMetaStore, dCarFiles, dConns, dresp,
                   hist, parentsSeen, carHist, disk, acked, sub, ids, open,
                   flight, lin, excluded, frames>>

(***************************************************************************)
(* part_002: the backend with persistent storage.  Its dispatcher keeps    *)
(* the module's metaStore as fireproof-backend.ts does (here dMetaStore)   *)
(* and PersistentStorage keeps two things in ./data: meta-store.json, a    *)
(* JSON object (its members in insertion order), and one file per content  *)
(* key.  A file that is not there reads as the empty object.               *)
(***************************************************************************)
MaxRestarts == 1

NoFiles == [meta |-> <<>>, cars |-> <<>>]

NoAcks == [metas |-> {}, cars |-> {}, restarts |-> 0]

\* part_002:62-65  the file becomes the JSON of Object.fromEntries(metaStore)
saveMetaStore(d, store) == [d EXCEPT !.meta = store]

\* part_002:67-75  new Map(Object.entries(JSON.parse(file)))
loadMetaStore(d) == d.meta

\* part_002:78-86  the parsed file
getMetaStore(d) == d.meta

\* part_002:98-106  read the file, set one member, write the file
putMeta(d, key, data) == [d EXCEPT !.meta = MapSet(getMetaStore(d), key, data)]

\* part_002:36-39  `${key}.car` gets the bytes
saveCarFile(d, key, data) == [d EXCEPT !.cars = MapSet(@, key, data)]

\* part_002:108-115  `${cid}.car` gets JSON.stringify of the parsed body
putCarFile(d, cid, data) == [d EXCEPT !.cars = MapSet(@, cid, Utf8(Stringify(data)))]

\* part_002:88-96  the bytes of `${cid}.car`, or null (NoBytes)
getCarFile(d, cid) == IF MapHas(d.cars, cid) THEN MapGet(d.cars, cid) ELSE NoBytes

\* part_002:612-620  entry.cid of a member without cid is undefined, which
\* c.json leaves out: eventCid "" stands for the missing field
FireproofMetaOf(d) ==
    LET file == getMetaStore(d) IN
    [i \in 1..Len(file) |->
        [eventCid |-> IF "cid" \in DOMAIN file[i].val THEN file[i].val.cid ELSE "",
         parents |-> file[i].val.parents]]

\* the cids of the entries of msg.meta.metas
MetaCids(metas) == {metas[i].cid : i \in 1..Len(metas)}

\* messages to the dispatcher of part_002
PersistMsgs ==
    {Msg(ty, "t1", <<Entry(cid)>>) : ty \in {"reqPutMeta", "reqDelMeta"},
                                    cid \in {"e1", "e3"}}
        \cup {Msg("reqGetMeta", "t1", <<>>)}

\* bodies of PUT /fp?meta=: one {cid, data, parents} object
PersistBodies == {Entry("e1"), Entry("e2")}

\* bodies of PUT /fp?car=: bytes that are no JSON, and a JSON text
PersistCarBodies == {RawBytes(<<7>>), Utf8(JsonText(JNum(7), TRUE))}

\* part_002:213-252 with 308-343, 345-366, 368-394: the handlers of
\* fireproof-backend.ts, and after the loop of a put or a delete the whole
\* metaStore is saved; the answer does not depend on the save
Handled(msg) ==
    LET r == dispatch(dMetaStore, msg)
        saved == msg.type \in {"reqPutMeta", "reqDelMeta"} /\ msg.metas # <<>>
                    /\ r.resp.status = 200
    IN
    /\ dMetaStore' = r.store
    /\ dresp' = r.resp
    /\ disk' = IF saved THEN saveMetaStore(disk, r.store) ELSE disk
    /\ acked' = IF r.resp.status # 200 THEN acked
                ELSE IF msg.type = "reqPutMeta"
                     THEN [acked EXCEPT !.metas = @ \cup MetaCids(msg.metas)]
                ELSE IF msg.type = "reqDelMeta"
                     THEN [acked EXCEPT !.metas = @ \ MetaCids(msg.metas)]
                ELSE acked
    /\ ids' = ids + IdsUsed(msg)

\* part_002:645-671  a control message PUT to /fp: the route awaits the
\* dispatcher inside its own try, and answers 500 as the dispatcher's catch
PersistDispatch(msg) ==
    /\ Handled(msg)
    /\ UNCHANGED <<metaStore, carFiles, resp, gw, dCarFiles, dConns,
                   hist, parentsSeen, carHist, sub, open,
                   flight, lin, excluded, frames>>

\* part_002:308, 368  the handlers declared async
AsyncHandlers == {"reqPutMeta", "reqDelMeta"}

\* part_002:213-252  dispatch returns the promise of an async handler
\* without awaiting it: the handler's exception passes the catch of dispatch
\* and rejects the promise of dispatch
Rejects(store, msg) == msg.type \in AsyncHandlers /\ Route(store, msg).thrown

\* what arrives in a message event of a socket: bytes that ende.decode
\* turns into a message, or bytes on which it throws
NoMsg == Msg("none", "", <<>>)
Decodable(msg) == [decodes |-> TRUE, msg |-> msg]
Undecodable == [decodes |-> FALSE, msg |-> NoMsg]

WsMsgs ==
    {Msg(ty, "t1", <<>>) : ty \in {"reqGetMeta", "reqBogus"}}
        \cup {Msg(ty, "t1", <<Entry("e1")>>) : ty \in {"reqPutMeta", "reqDelMeta"}}
        \cup {Msg(ty, "t2", ms) : ty \in {"reqPutMeta", "reqDelMeta"},
                                 ms \in {<<NullEntry>>, <<Entry("e2"), NullEntry>>}}

WsData == {Undecodable} \cup {Decodable(msg) : msg \in WsMsgs}

\* the frames sent to a socket for its last message; none before the first
FramesFor(ws, sent) == [ws |-> ws, sent |-> sent]
NoFrames == FramesFor("none", <<>>)

\* part_002:795-802  {type: 'error', error: msg.Err().message}
ErrorFrame == MsgResponse(0, "error", "", <<>>, "decode")

\* part_002:787-834  onMessage of /ws: the frame of a decode error; else the
\* body of the Response of dispatch, sent once; the catch around the handler
\* logs and sends nothing
PersistWsMessage(ws, data) ==
    /\ ws \in open
    /\ \/ /\ ~data.decodes
          /\ frames' = FramesFor(ws, <<ErrorFrame>>)
          /\ UNCHANGED <<dMetaStore, dresp, disk, acked, ids>>
       \/ /\ data.decodes
          /\ ~Rejects(dMetaStore, data.msg)
          /\ Handled(data.msg)
          /\ frames' = FramesFor(ws, <<dresp'>>)
       \/ /\ data.decodes
          /\ Rejects(dMetaStore, data.msg)
          /\ dMetaStore' = Route(dMetaStore, data.msg).store
          /\ frames' = FramesFor(ws, <<>>)
          /\ UNCHANGED <<dresp, disk, acked, ids>>
    /\ UNCHANGED <<metaStore, carFiles, resp, gw, dCarFiles, dConns,
                   hist, parentsSeen, carHist, sub, open,
                   flight, lin, excluded>>

(***************************************************************************)
(* fireproof-backend.ts: a PUT with a body, on /fp and on a path that only *)
(* the catch-all route serves.                                             *)
(***************************************************************************)
PutPaths == {<<"fp">>, <<"other">>}

PutMsgs ==
    {Msg(ty, "t1", <<>>) : ty \in {"reqGetMeta", "reqBogus"}}
        \cup {Msg(ty, "t1", <<Entry(cid)>>) : ty \in {"reqPutMeta", "reqDelMeta"},
                                             cid \in {"e1", "e3"}}

PutData == {Undecodable} \cup {Decodable(msg) : msg \in PutMsgs}

\* the bytes of a body that is no JSON text
UndecodableBytes == RawBytes(<<7>>)

\* fireproof-backend.ts:837  `upload-${Date.now()}-${random}`: a name the
\* request does not choose
UploadNames == {"upload-1", "upload-2"}

\* fireproof-backend.ts:396-399  c.json({error: 'Internal server error'}, 500)
InternalError == MsgResponse(500, "", "", <<>>, "Internal server error")

\* fireproof-backend.ts:841-847  c.json({status: 'ok', filename, size, ...})
UploadedResponse == MsgResponse(200, "", "", <<>>, "")

\* fireproof-backend.ts:848-851  c.json({error: 'File upload failed'}, 500)
UploadFailed == MsgResponse(500, "", "", <<>>, "File upload failed")

\* fireproof-backend.ts:376-399 (/fp) and 812-857 (catch-all): the body is
\* parsed as JSON and dispatched.  When c.req.json() throws, /fp answers 500;
\* the catch-all route reads the body again as bytes and stores it as a
\* content file under a fresh name, or, where the body cannot be read a
\* second time, answers 500.
PutBody(path, data) ==
    /\ \/ /\ data.decodes
          /\ dMetaStore' = dispatch(dMetaStore, data.msg).store
          /\ dresp' = dispatch(dMetaStore, data.msg).resp
          /\ UNCHANGED dCarFiles
       \/ /\ ~data.decodes
          /\ path = <<"fp">>
          /\ dresp' = InternalError
          /\ UNCHANGED <<dMetaStore, dCarFiles>>
       \/ /\ ~data.decodes
          /\ path # <<"fp">>
          /\ \E filename \in UploadNames :
                dCarFiles' = MapSet(dCarFiles, filename, UndecodableBytes)
          /\ dresp' = UploadedResponse
          /\ UNCHANGED dMetaStore
       \/ /\ ~data.decodes
          /\ path # <<"fp">>
          /\ dresp' = UploadFailed
          /\ UNCHANGED <<dMetaStore, dCarFiles>>
    /\ UNCHANGED <<metaStore, carFiles, resp, gw, dConns,
                   hist, parentsSeen, carHist,
                   disk, acked, sub, ids, open,
                   flight, lin, excluded, frames>>

\* part_002:646-669  PUT /fp?meta=<meta>: the body goes into the file under
\* the name of the pointer; the metaStore of the process is not touched
PersistPutMeta(meta, body) ==
    /\ disk' = putMeta(disk, meta, body)
    /\ resp' = MetaResponse("PUT", meta, 200, <<>>)
    /\ acked' = [acked EXCEPT !.metas = @ \cup {body.cid}]
    /\ UNCHANGED <<metaStore, carFiles, gw, dMetaStore, dCarFiles, dConns, dresp,
                   hist, parentsSeen, carHist, sub, ids, open,
                   flight, lin, excluded, frames>>

\* part_002:598-624  GET /fp?meta=<meta>: every member of the file
PersistGetMeta(meta) ==
    /\ resp' = MetaResponse("GET", meta, 200, FireproofMetaOf(disk))
    /\ UNCHANGED <<metaStore, carFiles, gw, dMetaStore, dCarFiles, dConns, dresp,
                   hist, parentsSeen, carHist, disk, acked, sub, ids, open,
                   flight, lin, excluded, frames>>

\* part_002:646-676, 692-695  PUT /fp?car=<car>: c.req.json() of a body that
\* is no JSON throws, which the handler answers with 500
PersistPutCar(car, body) ==
    /\ \/ /\ ParsesAsJson(body)
          /\ disk' = putCarFile(disk, car, body.utf8.v)
          /\ resp' = CarResponse("PUT", car, 200, NoBytes)
          /\ acked' = [acked EXCEPT !.cars = @ \cup {car}]
       \/ /\ ~ParsesAsJson(body)
          /\ resp' = CarResponse("PUT", car, 500, NoBytes)
          /\ UNCHANGED <<disk, acked>>
    /\ UNCHANGED <<metaStore, carFiles, gw, dMetaStore, dCarFiles, dConns, dresp,
                   hist, parentsSeen, carHist, sub, ids, open,
                   flight, lin, excluded, frames>>

\* part_002:626-640  GET /fp?car=<car>
PersistGetCar(car) ==
    /\ resp' = IF getCarFile(disk, car) # NoBytes
               THEN CarResponse("GET", car, 200, getCarFile(disk, car))
               ELSE CarResponse("GET", car, 404, NoBytes)
    /\ UNCHANGED <<metaStore, carFiles, gw, dMetaStore, dCarFiles, dConns, dresp,
                   hist, parentsSeen, carHist, disk, acked, sub, ids, open,
                   flight, lin, excluded, frames>>

\* part_002:1106-1135  PUT /upload/:filename
PersistUpload(filename, bytes) ==
    /\ dCarFiles' = MapSet(dCarFiles, filename, bytes)
    /\ disk' = saveCarFile(disk, filename, bytes)
    /\ acked' = [acked EXCEPT !.cars = @ \cup {filename}]
    /\ UNCHANGED <<metaStore, carFiles, resp, gw, dMetaStore, dConns, dresp,
                   hist, parentsSeen, carHist, sub, ids, open,
                   flight, lin, excluded, frames>>

\* part_002:157-160, 542-557  a new process: the module's Maps and the room
\* are empty, then initialize() fills metaStore from the file
Restart ==
    /\ acked.restarts < MaxRestarts
    /\ dMetaStore' = loadMetaStore(disk)
    /\ dCarFiles' = <<>>
    /\ dConns' = <<>>
    /\ open' = {}
    /\ acked' = [acked EXCEPT !.restarts = @ + 1]
    /\ UNCHANGED <<metaStore, carFiles, resp, gw, dresp,
                   hist, parentsSeen, carHist, disk, sub, ids,
                   flight, lin, excluded, frames>>

(***************************************************************************)
(* The specifications: the meta endpoint of index.ts (Spec), its content   *)
(* endpoint among other requests (SpecCar), the gateway in front of        *)
(* index.ts (SpecGw), and the dispatcher (SpecDisp).                       *)
(***************************************************************************)
Init ==
    /\ metaStore = <<>>
    /\ carFiles = <<>>
    /\ resp = NoResponse
    /\ gw = NoResult
    /\ dMetaStore = <<>>
    /\ dCarFiles = <<>>
    /\ dConns = <<>>
    /\ dresp = NoMsgResponse
    /\ hist = [p \in AllPointers |-> <<>>]
    /\ parentsSeen = [p \in AllPointers |-> {}]
    /\ carHist = [k \in CarKeys |-> <<>>]
    /\ disk = NoFiles
    /\ acked = NoAcks
    /\ sub = NoSubscription
    /\ ids = 0
    /\ open = {}
    /\ flight = [c \in Clients |-> Idle]
    /\ lin = <<>>
    /\ excluded = [p \in AllPointers |-> {}]
    /\ frames = NoFrames

Next ==
    \/ \E meta \in Pointers, body \in Bodies : PutMeta(meta, body)
    \/ \E meta \in Pointers : GetMeta(meta)
    \/ \E meta \in Pointers : DeleteMeta(meta)
    \/ DeleteGlobal

Spec == Init /\ [][Next]_vars

\* requests of two clients to the meta endpoint of index.ts, in flight at
\* once
NextFlight ==
    \/ \E c \in Clients, req \in FlightReqs : Receive(c, req)
    \/ \E c \in Clients : Run(c)

SpecFlight == Init /\ [][NextFlight]_vars

NextReplay ==
    \/ \E body \in ReplayBodies : ReplayPut(<<"main">>, body)
    \/ ReplayGet(<<"main">>)
    \/ ReplayDelete(<<"main">>)

SpecReplay == Init /\ [][NextReplay]_vars

\* the meta endpoint under pointer names of which one is the other's prefix
NextNested ==
    \/ \E meta \in NestedPointers, cid \in {"e1", "e3"} :
          PutMeta(meta, <<Entry(cid)>>)
    \/ \E meta \in NestedPointers : GetMeta(meta)
    \/ \E meta \in NestedPointers : DeleteMeta(meta)

SpecNested == Init /\ [][NextNested]_vars

NextCar ==
    \/ \E car \in CarKeys, bytes \in CarBodies : PutCar(car, bytes)
    \/ \E car \in CarKeys : GetCar(car)
    \/ \E car \in CarKeys : DeleteCar(car)
    \/ PutMeta(<<"main">>, <<Entry("e1")>>)
    \/ GetMeta(<<"main">>)
    \/ DeleteGlobal

SpecCar == Init /\ [][NextCar]_vars

NextGw ==
    \/ \E url \in MetaUrls \cup CarUrls \cup OtherUrls, net \in Nets :
          \E payload \in EnvelopePayloads(url) : GwPut(url, payload, net)
    \/ \E url \in MetaUrls \cup CarUrls \cup OtherUrls, net \in Nets :
            GwGet(url, net)

SpecGw == Init /\ [][NextGw]_vars

\* every call of the gateway under every outcome of the transport, beside
\* another client that uploads bytes that are no JSON text
NextGwNet ==
    \/ \E url \in NetUrls, net \in Nets :
          \E payload \in EnvelopePayloads(url) : GwPut(url, payload, net)
    \/ \E url \in NetUrls, net \in Nets : GwGet(url, net)
    \/ \E url \in NetUrls, net \in Nets : GwDelete(url, net)
    \/ \E url \in NetUrls, net \in Nets : GwGetPlain(url, url.key, net)
    \/ PutCar("k1", RawBytes(<<7>>))

SpecGwNet == Init /\ [][NextGwNet]_vars

\* subscriptions among the other calls of the gateway
NextGwSub ==
    \/ \E url \in NetUrls, net \in Nets :
          \E payload \in EnvelopePayloads(url) : GwPut(url, payload, net)
    \/ \E url \in NetUrls, net \in Nets : GwGet(url, net)
    \/ \E url \in NetUrls, net \in Nets : GwDelete(url, net)
    \/ \E url \in NetUrls, net \in Nets : GwGetPlain(url, url.key, net)
    \/ \E callback \in Callbacks : GwSubscribe(Url("meta", <<>>, "e1"), callback)
    \/ \E callback \in Callbacks : GwUnsubscribe(callback)

SpecGwSub == Init /\ [][NextGwSub]_vars

NextDisp ==
    \/ \E msg \in MetaMsgs \cup PlainMsgs \cup OtherMsgs \cup DataMsgs \cup NullMsgs :
          Dispatch(msg)
    \/ \E bytes \in CarBodies : Upload("k1", bytes)
    \/ WsOpen("w1")
    \/ WsClose("w1")

SpecDisp == Init /\ [][NextDisp]_vars

\* the room of connections among requests to /fp
RoomMsgs == OpenMsgs \cup PlainMsgs \cup {Msg("reqPutMeta", "t1", <<Entry("e1")>>)}

NextRoom ==
    \/ \E msg \in RoomMsgs : Dispatch(msg)
    \/ \E method \in Methods, kind \in StoreKinds : FpStoreRequest(method, kind)
    \/ \E ws \in Sockets : WsOpen(ws)
    \/ \E ws \in Sockets : WsClose(ws)

SpecRoom == Init /\ [][NextRoom]_vars

NextPersist ==
    \/ \E msg \in PersistMsgs : PersistDispatch(msg)
    \/ \E body \in PersistBodies : PersistPutMeta(<<"main">>, body)
    \/ PersistGetMeta(<<"main">>)
    \/ \E body \in PersistCarBodies : PersistPutCar("k1", body)
    \/ PersistGetCar("k1")
    \/ PersistUpload("k2", RawBytes(<<7>>))
    \/ Restart

SpecPersist == Init /\ [][NextPersist]_vars

\* the /ws route of part_002 with its sockets
NextWs ==
    \/ \E ws \in Sockets : WsOpen(ws)
    \/ \E ws \in Sockets : WsClose(ws)
    \/ \E ws \in Sockets, data \in WsData : PersistWsMessage(ws, data)

SpecWs == Init /\ [][NextWs]_vars

\* PUT requests with a body to fireproof-backend.ts
NextPut == \E path \in PutPaths, data \in PutData : PutBody(path, data)

SpecPut == Init /\ [][NextPut]_vars

(***************************************************************************)
(* Claims about the meta endpoint of index.ts.  A head is named by its     *)
(* cid.  resp is the response of the last request, so a formula about      *)
(* "a GET for P" reads the state right after a GET for P was served.       *)
(***************************************************************************)
IsGetMeta(P) == resp.method = "GET" /\ resp.kind = "meta" /\ resp.meta = P

RespCids == {resp.metas[i].cid : i \in 1..Len(resp.metas)}

ListsAsParent(child, e) == e.cid \in Range(child.parents)

Concurrent(a, b) ==
    a.cid # b.cid /\ ~ListsAsParent(a, b) /\ ~ListsAsParent(b, a)

WireEntries == {WireEntry(e) : e \in Entries}

\* C1 (head pruning): when the writes to pointer P are E1, without parents,
\* and then E2 with parents = [E1.cid], a GET for P returns exactly {E2}.
C1_HeadPruning ==
    \A P \in Pointers : \A E1, E2 \in WireEntries :
        (/\ IsGetMeta(P)
         /\ hist[P] = <<E1, E2>>
         /\ E1.parents = <<>>
         /\ E2.parents = <<E1.cid>>)
        => (RespCids = {E2.cid} /\ Len(resp.metas) = 1)

C1_Witness ==
    /\ IsGetMeta(<<"main">>)
    /\ hist[<<"main">>] = <<WireEntry(Entry("e1")), WireEntry(Entry("e3"))>>
    /\ RespCids = {"e3"}

\* C2 (conflict preservation): when the entries written to P are E1 and E2,
\* with distinct cids, in any order and any number of times, and neither
\* lists the other as a parent, a GET for P returns exactly {E1, E2}.
C2_ConflictPreservation ==
    \A P \in Pointers : \A E1, E2 \in WireEntries :
        (/\ IsGetMeta(P)
         /\ Range(hist[P]) = {E1, E2}
         /\ Concurrent(E1, E2))
        => (RespCids = {E1.cid, E2.cid} /\ Len(resp.metas) = 2)

C2_Witness ==
    /\ IsGetMeta(<<"main">>)
    /\ hist[<<"main">>] = <<WireEntry(Entry("e2")), WireEntry(Entry("e1"))>>
    /\ RespCids = {"e1", "e2"}

\* C3 (merge collapse): when the writes to P are two concurrent heads E1 and
\* E2, in either order, and then E3 with parents = [E1.cid, E2.cid], a GET
\* for P returns exactly {E3}.
C3_MergeCollapse ==
    \A P \in Pointers : \A E1, E2, E3 \in WireEntries :
        (/\ IsGetMeta(P)
         /\ hist[P] = <<E1, E2, E3>>
         /\ Concurrent(E1, E2)
         /\ Range(E3.parents) = {E1.cid, E2.cid})
        => (RespCids = {E3.cid} /\ Len(resp.metas) = 1)

C3_Witness ==
    /\ IsGetMeta(<<"main">>)
    /\ hist[<<"main">>] = <<WireEntry(Entry("e3")), WireEntry(Entry("e2")),
                            WireEntry(Entry("e4"))>>
    /\ RespCids = {"e4"}

\* C4 (no head is dropped): every entry written to P since the last DELETE
\* of P whose cid no entry ever written to P lists as a parent is in the
\* response of every GET for P.
C4_NoHeadDropped ==
    \A P \in Pointers :
        IsGetMeta(P) =>
            \A e \in Range(hist[P]) :
                e.cid \notin parentsSeen[P] => e.cid \in RespCids

\* a GET after a DELETE and a second round of writes, with a pruned parent
C4_Witness ==
    /\ IsGetMeta(<<"alt">>)
    /\ Len(hist[<<"alt">>]) = 2
    /\ parentsSeen[<<"alt">>] = {"e1"}
    /\ "e2" \in RespCids
    /\ "e1" \notin RespCids
    /\ hist[<<"main">>] # <<>>

\* the entries metaStore holds for pointer P, as GET reads them
StoredUnder(store, P) ==
    {[cid |-> store[i].key[2], parents |-> store[i].val.parents] :
        i \in {j \in 1..Len(store) : StartsWith(store[j].key, P)}}

\* C5 (live set): in every GET response for P no returned cid is among the
\* parents of a returned entry, and the returned set is exactly the entries
\* the store keeps for P that no other kept entry lists as a parent.
C5_LiveSet ==
    \A P \in Pointers :
        IsGetMeta(P) =>
            /\ \A i, j \in 1..Len(resp.metas) :
                  resp.metas[i].cid \notin Range(resp.metas[j].parents)
            /\ RespCids =
                  {e.cid : e \in {x \in StoredUnder(metaStore, P) :
                      \A y \in StoredUnder(metaStore, P) : ~ListsAsParent(y, x)}}

\* a response with two heads, taken after a superseded entry was removed
C5_Witness ==
    /\ IsGetMeta(<<"main">>)
    /\ RespCids = {"e2", "e3"}
    /\ "e1" \in {h.cid : h \in Range(hist[<<"main">>])}

\* C6 (read-time filter): a GET for P returns no entry whose cid is among the
\* parents of an entry stored under P when the GET is received, whatever the
\* order of the writes.
C6_ReadTimeFilter ==
    [][\A P \in Pointers :
          GetMeta(P) =>
              \A e \in StoredUnder(metaStore, P) :
                  \A i \in 1..Len(resp'.metas) :
                      resp'.metas[i].cid \notin Range(e.parents)]_vars

(***************************************************************************)
(* Claims about the dispatcher (SpecDisp).                                 *)
(***************************************************************************)
\* C7 (dispatcher parent pruning): a get-meta response holds no entry whose
\* cid is among the parents of an entry that put-meta has stored.
C7_DispatcherPruning ==
    dresp.type = "resGetMeta" =>
        \A i \in 1..Len(dMetaStore) : \A j \in 1..Len(dresp.metas) :
            dresp.metas[j].cid \notin Range(dMetaStore[i].val.parents)

(***************************************************************************)
(* Claims about the gateway in front of index.ts (SpecGw).                 *)
(***************************************************************************)
\* e is the payload v, or one of the events of v
MatchesPayload(e, v) == e = v \/ (v.t = "arr" /\ e \in Range(v.xs))

\* the parents the events of a DbMetaEvent[] payload declare
DeclaredParents(payload) ==
    UNION {{payload.xs[i].fs[2].v.xs[j].s : j \in 1..Len(payload.xs[i].fs[2].v.xs)} :
              i \in 1..Len(payload.xs)}

EventCid(event) == event.fs[1].v.s

\* the last call was a successful meta put to the pointer of url
PutSucceeded(url) ==
    /\ gw.op = "put"
    /\ gw.ok
    /\ gw.url.store = "meta"
    /\ NameOrMain(gw.url) = NameOrMain(url)

\* C8 (round trip through the gateway): a meta get that follows a successful
\* meta put of payload v to the same pointer succeeds with a collection that
\* holds an entry whose payload is v.
C8_GatewayRoundTrip ==
    [][\A url \in MetaUrls :
          (PutSucceeded(url) /\ GwGet(url, "up")) =>
              /\ gw'.ok
              /\ \E i \in 1..Len(gw'.payload.xs) :
                    MatchesPayload(gw'.payload.xs[i], gw.arg)]_vars

\* C9 (the upload carries the parents): the record a meta put uploads has the
\* parents its entry declares, so that a meta get that follows the put
\* returns none of them.
C9_UploadCarriesParents ==
    [][\A url \in MetaUrls :
          /\ GwPut(url, EnvelopePayloadOf(url.key), "up") =>
                Range(MapGet(metaStore', KeyOf(NameOrMain(url), url.key)).parents)
                    = DeclaredParents(EnvelopePayloadOf(url.key))
          /\ (PutSucceeded(url) /\ GwGet(url, "up")) =>
                \A i \in 1..Len(gw'.payload.xs) :
                    EventCid(gw'.payload.xs[i]) \notin DeclaredParents(gw.arg)]_vars

(***************************************************************************)
(* Claims about the content endpoint of index.ts (SpecCar).                *)
(***************************************************************************)
IsGetCar(k) == resp.method = "GET" /\ resp.kind = "car" /\ resp.car = k

StoreUrls == {url \in NetUrls : url.store \in {"car", "meta"}}

\* the step is a call of op on url
Calls(op, url) == gw'.op = op /\ gw'.url = url

\* nothing is stored for the content key or the pointer of url
Absent(files, store, url) ==
    IF url.store = "car" THEN ~MapHas(files, url.key)
    ELSE StoredUnder(store, NameOrMain(url)) = {}

\* C11 (idempotent delete): a delete of a content key or of a pointer that
\* reaches the server is answered 200 and returns success whether or not
\* anything is stored, and leaves nothing stored; a delete of what is absent
\* changes no store, so the second of two deletes succeeds like the first;
\* a get of what is absent is NotFound for a content key and the empty
\* collection for a pointer.
C11_IdempotentDelete ==
    [][\A url \in StoreUrls :
          /\ (Calls("delete", url) /\ GwDelete(url, "up")) =>
                /\ resp'.method = "DELETE" /\ resp'.status = 200
                /\ gw'.ok
                /\ Absent(carFiles', metaStore', url)
                /\ Absent(carFiles, metaStore, url) =>
                      (carFiles' = carFiles /\ metaStore' = metaStore)
          /\ (Calls("get", url) /\ Absent(carFiles, metaStore, url) /\ GwGet(url, "up")) =>
                IF url.store = "car"
                THEN resp'.status = 404 /\ ~gw'.ok /\ gw'.err = "NotFound"
                ELSE /\ resp'.status = 200 /\ resp'.metas = <<>>
                     /\ gw'.ok /\ gw'.payload = JArr(<<>>)]_vars

\* a delete of the content key k1 has succeeded, with entries left under the
\* pointer main
C11_Witness ==
    /\ gw = Ok("delete", Url("car", <<>>, "k1"), NoPayload, NoPayload)
    /\ resp = CarResponse("DELETE", "k1", 200, NoBytes)
    /\ ~MapHas(carFiles, "k1")
    /\ hist[<<"main">>] # <<>>

\* C12 (get of an absent content key): when nothing is stored for key k the
\* server answers GET with 404, get and getPlain return a NotFound failure,
\* and the content store is as it was.
C12_AbsentContentNotFound ==
    [][\A url \in NetUrls :
          (/\ ~MapHas(carFiles, url.key)
           /\ \/ url.store = "car" /\ Calls("get", url) /\ GwGet(url, "up")
              \/ Calls("getPlain", url) /\ GwGetPlain(url, url.key, "up"))
          => /\ resp'.method = "GET" /\ resp'.car = url.key
             /\ resp'.status = 404
             /\ ~gw'.ok /\ gw'.err = "NotFound"
             /\ carFiles' = carFiles]_vars

\* getPlain of k1 has failed with NotFound after a delete left k1 absent
C12_Witness ==
    /\ gw = Err("getPlain", Url("car", <<>>, "k1"), "k1", "NotFound")
    /\ resp = CarResponse("GET", "k1", 404, NoBytes)
    /\ ~MapHas(carFiles, "k1")

(***************************************************************************)
(* Claims about the dispatcher's content, error and correlation behaviour  *)
(* (SpecDisp).                                                             *)
(***************************************************************************)
\* the type of the answer to a request type of the routing table
ResTypeOf(type) ==
    CASE type = "reqGestalt" -> "resGestalt"
      [] type = "reqOpen" -> "resOpen"
      [] type = "reqPutMeta" -> "resPutMeta"
      [] type = "reqGetMeta" -> "resGetMeta"
      [] type = "reqDelMeta" -> "resDelMeta"
      [] type = "reqPutData" -> "resPutData"
      [] type = "reqGetData" -> "resGetData"
      [] type = "reqDelData" -> "resDelData"
      [] type = "bindGetMeta" -> "resGetMeta"

\* the messages of a known type whose handler runs to its end
WellFormedMsgs ==
    {m \in MetaMsgs \cup PlainMsgs \cup OtherMsgs \cup DataMsgs :
        m.type # "reqBogus"}

\* msg is answered as its handler answers: 200, with its answer type and tid
ServedNormally(msg, r) ==
    r.status = 200 /\ r.type = ResTypeOf(msg.type) /\ r.tid = msg.tid

\* C13 (two-phase content transfer): reqPutData for key k answers with a
\* location, and once bytes b are uploaded to the location of k, reqGetData
\* for k yields b, either as its data or through a download location it
\* returns.
C13_TwoPhaseTransfer ==
    [][\A msg \in DataMsgs :
          /\ (msg.type = "reqPutData" /\ Dispatch(msg)) => dresp'.signedUrl # NoUrl
          /\ (/\ msg.type = "reqGetData"
              /\ MapHas(dCarFiles, msg.key)
              /\ Dispatch(msg))
             => LET b == MapGet(dCarFiles, msg.key) IN
                \/ dresp'.data = b
                \/ /\ dresp'.signedUrl # NoUrl
                   /\ Download(dCarFiles', dresp'.signedUrl) = b]_vars

\* C14 (unknown message tolerance): a message of a type outside the routing
\* table is answered 400 and changes neither the meta store, the content
\* store nor the connection registry; the well-formed request dispatched
\* after it is served as its handler serves it.
C14_UnknownMessage ==
    [][/\ \A msg \in PlainMsgs :
             (msg.type = "reqBogus" /\ Dispatch(msg)) =>
                 /\ dresp'.status = 400
                 /\ dMetaStore' = dMetaStore
                 /\ dCarFiles' = dCarFiles
                 /\ dConns' = dConns
       /\ \A msg \in WellFormedMsgs :
             (dresp.status = 400 /\ Dispatch(msg)) =>
                 /\ ServedNormally(msg, dresp')
                 /\ dresp' = Route(dMetaStore, msg).resp
                 /\ dMetaStore' = Route(dMetaStore, msg).store]_vars

\* an unknown message was answered 400 with entries stored, content uploaded
\* and a connection registered
C14_Witness ==
    /\ dresp = MsgResponse(400, "", "", <<>>, "Unknown message type")
    /\ dMetaStore # <<>>
    /\ dCarFiles # <<>>
    /\ dConns # <<>>

\* C15 (handler exception): a control message whose handler throws is
\* answered with status 500 and the generic error payload, and the
\* well-formed request dispatched after it is served as its handler serves
\* it.
C15_HandlerException ==
    [][/\ \A msg \in NullMsgs :
             Dispatch(msg) =>
                 /\ dresp'.status = 500
                 /\ dresp'.error = "Internal server error"
                 /\ dresp'.metas = <<>> /\ dresp'.data = NoBytes
       /\ \A msg \in WellFormedMsgs :
             (dresp.status = 500 /\ Dispatch(msg)) =>
                 /\ ServedNormally(msg, dresp')
                 /\ dresp' = Route(dMetaStore, msg).resp
                 /\ dMetaStore' = Route(dMetaStore, msg).store]_vars

\* a put-meta threw at a null after it had stored e2
C15_Witness ==
    /\ dresp = MsgResponse(500, "", "", <<>>, "Internal server error")
    /\ MapHas(dMetaStore, <<"main", "e2">>)

\* C16 (transaction id correlation): the answer to a control message that
\* carries a tid is an object with a type and the tid of the message.
C16_TidCorrelation ==
    [][\A msg \in MetaMsgs \cup PlainMsgs \cup OtherMsgs \cup DataMsgs \cup NullMsgs :
          Dispatch(msg) => (dresp'.type # "" /\ dresp'.tid = msg.tid)]_vars

\* the response a call saw, when the transport brought one back
Seen(net, r) == IF net = "up" THEN r ELSE FaultResponse(net)

\* C17 (failure semantics): under every transport outcome each of put, get,
\* delete and getPlain completes with a success or a failure Result; no
\* exception reaches the caller.
C17_NoExceptionEscapes ==
    gw.op # "none" =>
        /\ ~gw.thrown
        /\ gw.ok \/ gw.err # "none"

\* a delete whose request met a network-level exception returned a failure
C17_Witness ==
    gw = Err("delete", Url("meta", <<>>, "e1"), NoPayload, "Error")

\* C18 as claimed (get error classification): get of content or meta returns
\* a NotFound failure exactly when the remote answers 404, a failure that is
\* not NotFound for every other non-2xx status, and success for 2xx.
C18_GetClassification ==
    [][\A url \in StoreUrls : \A net \in Nets :
          (Calls("get", url) /\ GwGet(url, net)) =>
              LET r == Seen(net, resp') IN
              /\ (~gw'.ok /\ gw'.err = "NotFound") <=> (net # "down" /\ r.status = 404)
              /\ (net # "down" /\ ~ResponseOk(r) /\ r.status # 404)
                    => (~gw'.ok /\ gw'.err # "NotFound")
              /\ (net # "down" /\ ResponseOk(r)) => gw'.ok]_vars

\* the body of a 2xx answer decodes: entries for meta, a JSON text for content
Decodes(url, r) == url.store = "meta" \/ ParsesAsJson(r.bytes)

\* C18 as amended: get of content or meta returns a NotFound failure exactly
\* when the remote answers 404, a failure that is not NotFound for every
\* other non-2xx status, success for a 2xx answer whose body decodes, and a
\* failure that is not NotFound for a 2xx answer whose body does not.
C18_GetClassificationAmended ==
    [][\A url \in StoreUrls : \A net \in Nets :
          (Calls("get", url) /\ GwGet(url, net)) =>
              LET r == Seen(net, resp') IN
              /\ (~gw'.ok /\ gw'.err = "NotFound") <=> (net # "down" /\ r.status = 404)
              /\ (net # "down" /\ ~ResponseOk(r) /\ r.status # 404)
                    => (~gw'.ok /\ gw'.err # "NotFound")
              /\ (net # "down" /\ ResponseOk(r)) => (gw'.ok <=> Decodes(url, r))]_vars

\* a get of k1 was answered 200 with bytes that are no JSON text, and failed
C18_Witness ==
    /\ gw = Err("get", Url("car", <<>>, "k1"), NoPayload, "SyntaxError")
    /\ resp = CarResponse("GET", "k1", 200, RawBytes(<<7>>))

\* C19 (best-effort delete): delete of content or meta returns success when
\* the remote answers 2xx or 404, and failure for every other status and for
\* a network-level exception.
C19_DeleteBestEffort ==
    [][\A url \in StoreUrls : \A net \in Nets :
          (Calls("delete", url) /\ GwDelete(url, net)) =>
              LET r == Seen(net, resp') IN
              gw'.ok <=> (net # "down" /\ (ResponseOk(r) \/ r.status = 404))]_vars

\* a delete of k1 succeeded on an answer that was not the server's: a 404
C19_Witness ==
    /\ gw = Ok("delete", Url("car", <<>>, "k1"), NoPayload, NoPayload)
    /\ resp.method # "DELETE"
    /\ MapHas(carFiles, "k1")

\* C20 (put failure): put of content or meta returns a failure whenever the
\* remote answers a non-success status, 404 included, and success when it
\* answers 2xx.
C20_PutFailure ==
    [][\A url \in StoreUrls : \A net \in Nets \ {"down"} :
          \A payload \in EnvelopePayloads(url) :
              (Calls("put", url) /\ GwPut(url, payload, net)) =>
                  LET r == Seen(net, resp') IN
                  /\ gw'.ok <=> ResponseOk(r)
                  /\ ~ResponseOk(r) => gw'.err = HttpError(r.status)]_vars

\* a put of content was answered 404 and failed
C20_Witness ==
    gw = Err("put", Url("car", <<>>, "k1"), JNum(4), "HTTP 404")

(***************************************************************************)
(* Claims about the backend with persistent storage (part_002).            *)
(***************************************************************************)
\* the entry is returned by one of the two reads of the meta store: the
\* get-meta of the dispatcher, or GET /fp?meta=
MetaAvailable(store, d, cid) ==
    \/ \E i \in 1..Len(MainEntries(store)) : MainEntries(store)[i].cid = cid
    \/ \E i \in 1..Len(FireproofMetaOf(d)) : FireproofMetaOf(d)[i].eventCid = cid

\* C21: every meta entry and every content block whose write was answered
\* with success, and that no later acknowledged delete named, is available
\* once the server has restarted and initialize() has reloaded the state.
C21_PersistenceAcrossRestart ==
    [][Restart =>
          /\ \A cid \in acked.metas : MetaAvailable(dMetaStore', disk', cid)
          /\ \A car \in acked.cars : getCarFile(disk', car) # NoBytes]_vars

(***************************************************************************)
(* Claims about the room of connections (fireproof-backend.ts).            *)
(***************************************************************************)
\* the connections the room holds for a socket
ConnsOf(conns, ws) == {i \in 1..Len(conns) : conns[i].val.ws = ws}

\* C22: once reqOpen has been answered with a (reqId, resId) pair, a
\* connection with that pair is in the room and isConnected finds it.
C22_ConnectionCreation ==
    [][\A msg \in OpenMsgs :
          (Dispatch(msg) /\ dresp'.type = "resOpen") =>
              isConnected(dConns', dresp'.conn)]_vars

\* C23: the room holds exactly one connection for every open socket and
\* none for any other; closing a socket removes its connection, which
\* isConnected no longer finds, and removes the connection of no other
\* socket.
C23_RegistryMatchesTransports ==
    /\ [](\A ws \in Sockets :
             Cardinality(ConnsOf(dConns, ws)) = IF ws \in open THEN 1 ELSE 0)
    /\ [][\A ws \in Sockets :
             (ws \in open /\ WsClose(ws)) =>
                 /\ \A i \in ConnsOf(dConns, ws) :
                        ~isConnected(dConns', dConns[i].val.conn)
                 /\ \A i \in 1..Len(dConns) :
                        dConns[i].val.ws # ws =>
                            isConnected(dConns', dConns[i].val.conn)]_vars

\* no message has been dispatched, so the first two ids went to a socket
\* that is closed by now; the other socket is open with its connection in
\* the room
C23_Witness ==
    /\ dresp = NoMsgResponse
    /\ open = {"w2"}
    /\ Len(dConns) = 1
    /\ dConns[1].val = [ws |-> "w2", conn |-> [reqId |-> 3, resId |-> 4]]
    /\ isConnected(dConns, dConns[1].val.conn)

(***************************************************************************)
(* Claims about the delete messages of the dispatcher.                     *)
(***************************************************************************)
\* C24: once reqDelData for a key has been acknowledged, the content entry
\* of the key is gone and a get-content does not yield its bytes; the same
\* delete dispatched again is acknowledged again.
C24_DeleteContent ==
    [][\A tid \in Tids, key \in DataKeys \ {NoKey} :
          (dresp'.type = "resDelData" /\ Dispatch(DataMsg("reqDelData", tid, key))) =>
              /\ dresp'.status = 200
              /\ ~MapHas(dCarFiles', key)
              /\ dispatch(dMetaStore', DataMsg("reqGetData", tid, key)).resp.data
                     \in {NoBytes, NullEntry}
              /\ dispatch(dMetaStore', DataMsg("reqDelData", tid, key)).resp
                     = dresp']_vars

\* C25: reqDelMeta that names entries removes exactly those entries;
\* reqDelMeta that names none, only the pointer, removes every entry of the
\* pointer; a get-meta after it returns no removed entry; and the delete is
\* acknowledged also when an entry it names is not stored.
C25_DeleteMeta ==
    [][\A tid \in Tids, ms \in DispBodies \cup {<<>>} :
          (dresp'.type = "resDelMeta" /\ Dispatch(Msg("reqDelMeta", tid, ms))) =>
              LET before == MetaCids(MainEntries(dMetaStore))
                  after == MetaCids(MainEntries(dMetaStore'))
                  removed == IF ms = <<>> THEN before ELSE MetaCids(ms)
                  listed == MetaCids(dispatch(dMetaStore',
                                              Msg("reqGetMeta", tid, <<>>)).resp.metas)
              IN /\ dresp' = MsgResponse(200, "resDelMeta", tid, <<>>, "")
                 /\ after = before \ removed
                 /\ listed \cap removed = {}]_vars

(***************************************************************************)
(* Claims about the routes of the backend.                                 *)
(***************************************************************************)
\* "reqX" -> "resX" for the request types that are answered by a reply
ReplyTypeOf(type) ==
    CASE type = "reqGestalt" -> "resGestalt"
      [] type = "reqOpen" -> "resOpen"
      [] type = "reqPutMeta" -> "resPutMeta"
      [] type = "reqGetMeta" -> "resGetMeta"
      [] type = "reqDelMeta" -> "resDelMeta"
      [] type = "reqPutData" -> "resPutData"
      [] type = "reqGetData" -> "resGetData"
      [] type = "reqDelData" -> "resDelData"

\* C26: each of the nine request types is answered by its own handler with
\* that handler's response type, reqX by resX, and bindGetMeta by a
\* meta-event type that is not the reply type of reqGetMeta.
C26_RoutingTable ==
    [][\A msg \in WellFormedMsgs :
          (dresp'.tid = msg.tid /\ Dispatch(msg)) =>
              /\ dresp' = Route(dMetaStore, msg).resp
              /\ msg.type # "bindGetMeta" => dresp'.type = ReplyTypeOf(msg.type)
              /\ msg.type = "bindGetMeta" =>
                     dresp'.type \notin {"", ReplyTypeOf("reqGetMeta")}]_vars

\* C27: a GET, a PUT or a DELETE of /fp with the car or the meta query
\* parameter reaches the store operation: it is not answered 405, and it is
\* not taken for a control message (400 unknown type, 500).
C27_StoreRequestsServed ==
    [][\A method \in Methods, kind \in StoreKinds :
          (resp'.method = method /\ resp'.kind = kind
              /\ FpStoreRequest(method, kind)) =>
                 resp'.status \in {200, 404}]_vars

(***************************************************************************)
(* Claims about the subscriptions of the gateway (SpecGwSub).              *)
(***************************************************************************)
\* C28: subscribe always returns success with an unsubscribe handle; no
\* call of the gateway after it invokes the callback; and a call of the
\* handle changes nothing the gateway or the server holds.
C28_NoOpSubscription ==
    /\ [](sub.invoked = {})
    /\ [][\A callback \in Callbacks :
             (gw'.op = "subscribe" /\ GwSubscribe(gw'.url, callback)) =>
                 /\ gw'.ok
                 /\ gw'.payload = UnsubscribeHandle]_vars
    /\ [][\A callback \in Callbacks :
             (sub'.released # sub.released /\ GwUnsubscribe(callback)) =>
                 UNCHANGED <<metaStore, carFiles, resp, gw>>]_vars

\* a callback was handed over and its handle called, and the last call of
\* the gateway, a put the server stored, came after the subscribe
C28_Witness ==
    /\ sub.handles = Callbacks
    /\ sub.released # {}
    /\ gw.op = "put"
    /\ gw.ok
    /\ metaStore # <<>>
    /\ sub.invoked = {}

(***************************************************************************)
(* Claims that compare the meta endpoint of index.ts with itself and with  *)
(* a store that prunes when it writes (Spec).                              *)
(***************************************************************************)
\* the reference Meta Store: each putHead(E) inserts E into the live set and
\* removes the ids of E.parents from it; h is the writes since the last
\* deleteHeads
RECURSIVE RefHeads(_, _, _)
RefHeads(h, i, live) ==
    IF i > Len(h) THEN live
    ELSE RefHeads(h, i + 1, (live \cup {h[i].cid}) \ Range(h[i].parents))

\* C29: whatever puts, gets and deletes a pointer has seen, a GET of
\* index.ts returns the heads the reference store, which prunes at write
\* time, holds for the pointer.
C29_ReadTimeEqualsWriteTime ==
    \A P \in Pointers : IsGetMeta(P) => RespCids = RefHeads(hist[P], 1, {})

\* the entries of a pointer in the Map
PointerPart(store, P) == SelectSeq(store, LAMBDA kv : StartsWith(kv.key, P))

\* the Map after the entries of h were PUT to an empty pointer in the order
\* of h
WrittenStore(P, h) ==
    StoreEntries(<<>>, P, [i \in 1..Len(h) |-> Entry(h[i].cid)], 1)

\* the cids a GET for P answers from a Map
HeadsOf(store, P) ==
    LET r == CollectEntries(store, P, 1, {}, <<>>, <<>>) IN
    {e.cid : e \in Range(FilterEntries(r.entries, r.allParents))}

\* the orders the writes of h can come in
Orders(h) == {[i \in 1..Len(h) |-> h[f[i]]] : f \in Permutations(1..Len(h))}

\* C30: when entries were written to a pointer with no GET in between, the
\* heads of the next GET are the heads it would answer after the same
\* writes in any other order.
C30_OrderIndependence ==
    [][\A P \in Pointers :
          (PointerPart(metaStore, P) = WrittenStore(P, hist[P]) /\ GetMeta(P)) =>
              \A h \in Orders(hist[P]) :
                  HeadsOf(WrittenStore(P, h), P)
                      = {resp'.metas[i].cid : i \in 1..Len(resp'.metas)}]_vars

(***************************************************************************)
(* Claims about requests to index.ts that are in flight at once            *)
(* (SpecFlight).                                                           *)
(***************************************************************************)
\* the requests of log executed one after the other, each as a whole, from
\* the store given: the store they leave and the entries of the last GET
RECURSIVE Replay(_, _, _, _)
Replay(log, i, store, metas) ==
    IF i > Len(log) THEN [store |-> store, metas |-> metas]
    ELSE IF log[i].kind = "put"
    THEN Replay(log, i + 1, StoreEntries(store, log[i].meta, log[i].body, 1), metas)
    ELSE LET r == CollectEntries(store, log[i].meta, 1, {}, <<>>, <<>>) IN
         Replay(log, i + 1, MapDeleteAll(store, r.deleted),
                FilterEntries(r.entries, r.allParents))

\* C31: with PUTs and GETs for one pointer in flight at once, every GET
\* answers what the requests answer when they are executed one after the
\* other in the order their handlers returned; no GET sees a part of a
\* batch, and the store holds every write of every handler that returned.
C31_MetaAtomicity ==
    /\ (\A c \in Clients : flight[c].done = 0) =>
           metaStore = Replay(lin, 1, <<>>, <<>>).store
    /\ (lin # <<>> /\ lin[Len(lin)].kind = "get") =>
           /\ resp.method = "GET"
           /\ resp.metas = Replay(lin, 1, <<>>, <<>>).metas

\* a GET was answered with a head while the PUT of a batch, received before
\* it, still waits, and a PUT had returned before
C31_Witness ==
    /\ Len(lin) = 2
    /\ lin[1].kind = "put"
    /\ lin[2].kind = "get"
    /\ resp.method = "GET"
    /\ resp.metas # <<>>
    /\ \E c \in Clients : flight[c].kind = "put" /\ Len(flight[c].body) = 2

(***************************************************************************)
(* Claims about writes that come again (SpecReplay).                       *)
(***************************************************************************)
\* C32: an entry that a GET for P has left out because a stored entry lists
\* it as a parent is in the response of no later GET for P, also when it is
\* written again, unless the heads of P were deleted in between.
C32_SupersededStays ==
    \A P \in Pointers : IsGetMeta(P) => RespCids \cap excluded[P] = {}

(***************************************************************************)
(* Claims about pointer names (SpecNested).                                *)
(***************************************************************************)
\* C33: a PUT, GET or DELETE addressed to pointer P changes the heads a GET
\* for no other pointer Q answers, and a GET for P answers only entries
\* that were written to P.
C33_PointerIsolation ==
    /\ [][\A P, Q \in NestedPointers :
             (P # Q /\ resp'.meta = P
                 /\ (GetMeta(P) \/ DeleteMeta(P)
                        \/ \E cid \in {"e1", "e3"} : PutMeta(P, <<Entry(cid)>>))) =>
                    HeadsOf(metaStore', Q) = HeadsOf(metaStore, Q)]_vars
    /\ [](\A P \in NestedPointers :
             IsGetMeta(P) => RespCids \subseteq {h.cid : h \in Range(hist[P])})

(***************************************************************************)
(* Claims about the meta endpoint of the persistent backend (SpecPersist). *)
(***************************************************************************)
\* C34: when two entries with distinct cids, neither a parent of the other,
\* have been PUT to /fp?meta=P, a GET /fp?meta=P reports both.
C34_PersistentConflicts ==
    [][(/\ acked.restarts = 0
        /\ dMetaStore = <<>>
        /\ acked.metas = {"e1", "e2"}
        /\ PersistGetMeta(<<"main">>)) =>
           {"e1", "e2"} \subseteq {resp'.metas[i].eventCid :
                                       i \in 1..Len(resp'.metas)}]_vars

(***************************************************************************)
(* Claims about what a GET of index.ts answers (Spec).                     *)
(***************************************************************************)
\* C35: the data string a GET answers for an entry is the data string of
\* the PUT that wrote the entry, whatever the payload holds.
C35_OpaquePayload ==
    \A P \in Pointers :
        IsGetMeta(P) =>
            \A i \in 1..Len(resp.metas) :
                resp.metas[i].data = Entry(resp.metas[i].cid).data



(***************************************************************************)
(* C36: every control message received over /ws causes exactly one reply   *)
(* frame on that socket, also when it cannot be decoded, has an unknown     *)
(* type, or its handler throws or rejects.                                  *)
(***************************************************************************)
C36_OneReplyPerMessage ==
    frames # NoFrames => Len(frames.sent) = 1

(***************************************************************************)
(* C37: a PUT whose body cannot be decoded as a control message is         *)
(* answered with a 4xx status and leaves the meta store and the content    *)
(* store unchanged, on /fp and on every path of the catch-all route.       *)
(***************************************************************************)
C37_UndecodablePutRejected ==
    [][(\E path \in PutPaths : PutBody(path, Undecodable)) =>
          /\ dresp'.status \in 400..499
          /\ dMetaStore' = dMetaStore
          /\ dCarFiles' = dCarFiles]_vars

(***************************************************************************)
(* C38: a GET for P that follows a GET for P, with no request in between,  *)
(* answers the same set of entries, although the first GET has removed the *)
(* superseded entries from the store.                                      *)
(***************************************************************************)
C38_RepeatedGet ==
    [][\A P \in Pointers :
          (IsGetMeta(P) /\ GetMeta(P)) =>
              Range(resp'.metas) = Range(resp.metas)]_vars

\* a GET for P has answered one head, and has removed from the store an
\* entry that was written to P
C38_Witness ==
    \E P \in Pointers :
        /\ IsGetMeta(P)
        /\ Len(resp.metas) = 1
        /\ resp.metas[1].parents # <<>>
        /\ \E i \in 1..Len(hist[P]) :
              /\ hist[P][i].cid \in Range(resp.metas[1].parents)
              /\ KeyOf(P, hist[P][i].cid) \notin MapKeys(metaStore)

(***************************************************************************)
(* C39: put returns success only if an upload request was sent and was     *)
(* answered with a success status, for every store kind; a store kind for  *)
(* which get answers 'Unknown store type' is never reported as written.    *)
(***************************************************************************)
C39_PutSuccessMeansUploaded ==
    [][\A url \in NetUrls : \A net \in Nets : \A payload \in EnvelopePayloads(url) :
          (Calls("put", url) /\ gw'.ok /\ GwPut(url, payload, net)) =>
              /\ url.store \in {"car", "meta"}
              /\ net = "up"
              /\ resp'.method = "PUT"
              /\ ResponseOk(resp')]_vars

(***************************************************************************)
(* C40: whenever no request is in flight, the meta store on disk equals    *)
(* the meta store in memory, whichever of the two write paths (the         *)
(* dispatcher's handlers, PUT /fp?meta=) the requests have taken.          *)
(***************************************************************************)
C40_DiskEqualsMemory ==
    disk.meta = dMetaStore

=============================================================================
